---- MODULE Spec2Model ----
(***************************************************************************)
(* Double demeaning for fixed-effects interactions (package dd_ie).        *)
(*                                                                         *)
(* The library is modelled as a caller that invokes one public function    *)
(* at a time with arguments drawn from small sets: the call and what it    *)
(* returned (or raised) are the state.  Floating-point numbers are         *)
(* modelled as exact rationals <<n, d>> in lowest terms (d > 0), so        *)
(* rounding error is not part of the model.                                *)
(***************************************************************************)
EXTENDS Integers, Sequences, FiniteSets, TLC

VARIABLES
    pc,     \* position of the caller: "idle" or "returned"
    call,   \* the call in progress / last made: [op |-> ..., arguments]
    ret,    \* its outcome: [raised |-> kind or "none", value |-> ...]
    analysis, \* the DoubleDemeanAnalysis object the caller holds, or NoObject
    passed  \* the table object the caller passed to the transformer or to the
            \* constructor: [before |-> its content then, now |-> its content
            \* now], or NoTable

vars == <<pc, call, ret, analysis, passed>>

(***************************************************************************)
(* Bounds of the model.                                                    *)
(***************************************************************************)
MaxRows == 3        \* rows of a panel given to the transformer
MaxUnits == 2       \* distinct units of such a panel
Vals == {-1, 0, 1}  \* values of X and Z in such a panel

(***************************************************************************)
(* Arithmetic on floats, modelled as exact rationals.                      *)
(***************************************************************************)
Abs(i) == IF i < 0 THEN -i ELSE i

RECURSIVE Gcd(_, _)
Gcd(a, b) == IF b = 0 THEN a ELSE Gcd(b, a % b)

Norm(n, d) ==
    LET g == Gcd(Abs(n), Abs(d))
        s == IF d < 0 THEN -1 ELSE 1
    IN  <<(s * n) \div g, (s * d) \div g>>

R(i) == <<i, 1>>
Zero == R(0)
RAdd(a, b) == Norm(a[1] * b[2] + b[1] * a[2], a[2] * b[2])
RSub(a, b) == Norm(a[1] * b[2] - b[1] * a[2], a[2] * b[2])
RMul(a, b) == Norm(a[1] * b[1], a[2] * b[2])
RDiv(a, b) == Norm(a[1] * b[2], a[2] * b[1])
RLt(a, b) == a[1] * b[2] < b[1] * a[2]
RLe(a, b) == a[1] * b[2] <= b[1] * a[2]

(***************************************************************************)
(* Tables (pandas DataFrames indexed by (unit, time)).                     *)
(*   cols : the column names, in order                                     *)
(*   rows : the rows, each [unit, time, v], v mapping column -> value      *)
(***************************************************************************)
InSeq(x, s) == \E i \in DOMAIN s : s[i] = x

Column(df, var) == [i \in DOMAIN df.rows |-> df.rows[i].v[var]]

\* df[var] = vals : overwrite an existing column in place, else append it
SetColumn(df, var, vals) ==
    [cols |-> IF InSeq(var, df.cols) THEN df.cols ELSE Append(df.cols, var),
     rows |-> [i \in DOMAIN df.rows |->
                 [df.rows[i] EXCEPT !.v = (var :> vals[i]) @@ @]]]

UnitsOf(df) == {df.rows[i].unit : i \in DOMAIN df.rows}
UnitRows(df, u) == {i \in DOMAIN df.rows : df.rows[i].unit = u}

RECURSIVE SumOver(_, _)
SumOver(vals, S) ==
    IF S = {} THEN Zero
    ELSE LET i == CHOOSE j \in S : TRUE
         IN  RAdd(vals[i], SumOver(vals, S \ {i}))

Mean(vals, S) == RDiv(SumOver(vals, S), R(Cardinality(S)))

\* df.groupby(level=0)[var].transform('mean')
GroupMeanWrong(df, var) ==
    [i \in DOMAIN df.rows |-> Mean(Column(df, var), DOMAIN df.rows)]
GroupMean(df, var) ==
    [i \in DOMAIN df.rows |->
        Mean(Column(df, var), UnitRows(df, df.rows[i].unit))]

(***************************************************************************)
(* create_double_demeaned_interaction                                      *)
(***************************************************************************)
MeanName(var) == "mean_" \o var
DmName(var) == "dm_" \o var
IntName(x, z) == "int_" \o x \o "_" \o z
DdIntName(x, z) == "dd_" \o IntName(x, z)

Raise(kind) == [raised |-> kind]
Value(v) == [raised |-> "none", value |-> v]

DemeanNothing(df, var) == SetColumn(df, DmName(var), Column(df, var))
Demean(df, var) ==
    LET c == Column(df, var)
        m == Column(df, MeanName(var))
    IN  SetColumn(df, DmName(var), [i \in DOMAIN df.rows |-> RSub(c[i], m[i])])

Interact(df, a, b, name) ==
    LET ca == Column(df, a)
        cb == Column(df, b)
    IN  SetColumn(df, name, [i \in DOMAIN df.rows |-> RMul(ca[i], cb[i])])

\* the caller's table after a transformer that assigns its columns on df
\* itself instead of on a copy
ArgumentAssignedInPlace(df, x_var, z_var) ==
    IF ~InSeq(x_var, df.cols) THEN df
    ELSE IF ~InSeq(z_var, df.cols)
    THEN SetColumn(df, MeanName(x_var), GroupMean(df, x_var))
    ELSE Interact(
             Interact(
                 Demean(Demean(
                     SetColumn(SetColumn(df, MeanName(x_var), GroupMean(df, x_var)),
                               MeanName(z_var), GroupMean(df, z_var)),
                     x_var), z_var),
                 x_var, z_var, IntName(x_var, z_var)),
             DmName(x_var), DmName(z_var), DdIntName(x_var, z_var))

\* the caller's table after create_double_demeaned_interaction: the function
\* starts with df_dd = df.copy() and assigns every column on df_dd
ArgumentAfterTransform(df, x_var, z_var) == df

create_double_demeaned_interaction(df, x_var, z_var) ==
    IF ~InSeq(x_var, df.cols) \/ ~InSeq(z_var, df.cols)
    THEN Raise("KeyError")
    ELSE LET d1 == SetColumn(df, MeanName(x_var), GroupMean(df, x_var))
             d2 == SetColumn(d1, MeanName(z_var), GroupMean(d1, z_var))
             d3 == Demean(d2, x_var)
             d4 == Demean(d3, z_var)
             d5 == Interact(d4, x_var, z_var, IntName(x_var, z_var))
             d6 == Interact(d5, DmName(x_var), DmName(z_var),
                            DdIntName(x_var, z_var))
         IN  Value(d6)

(***************************************************************************)
(* Panels handed to the transformer.                                       *)
(***************************************************************************)
\* unit labels in order of first appearance: 1, then at most one new label
UnitLabelings(n) ==
    {s \in [1..n -> 1..MaxUnits] :
        /\ s[1] = 1
        /\ \A i \in 2..n : \E j \in 1..(i-1) : s[i] <= s[j] + 1}

\* time of row i: its rank among the rows of its unit
TimeOf(s, i) == Cardinality({j \in 1..i : s[j] = s[i]})

MakePanel(s, xs, zs) ==
    [cols |-> <<"y", "x", "z">>,
     rows |-> [i \in DOMAIN s |->
                 [unit |-> s[i], time |-> TimeOf(s, i),
                  v |-> [c \in {"y", "x", "z"} |->
                           IF c = "y" THEN R(i)
                           ELSE IF c = "x" THEN R(xs[i]) ELSE R(zs[i])]]]]

\* the panels of tests/test_core.py
TestPanel(units, xs, zs) ==
    [cols |-> <<"x", "z">>,
     rows |-> [i \in DOMAIN units |->
                 [unit |-> units[i], time |-> TimeOf(units, i),
                  v |-> [c \in {"x", "z"} |->
                           IF c = "x" THEN R(xs[i]) ELSE R(zs[i])]]]]

TestPanels ==
    {TestPanel(<<1, 1, 1, 2, 2, 2>>, <<1, 2, 3, 4, 5, 6>>, <<2, 4, 6, 1, 3, 5>>),
     TestPanel(<<1, 1, 2, 2>>, <<1, 3, 2, 4>>, <<2, 4, 1, 3>>)}

(***************************************************************************)
(* The caller.                                                             *)
(***************************************************************************)
NoCall == [op |-> "none"]
NoRet == [raised |-> "none"]

NoObject == [class |-> "none"]
NoTable == [cols |-> <<>>, rows |-> <<>>, class |-> "none"]

Init ==
    /\ pc = "idle"
    /\ call = NoCall
    /\ ret = NoRet
    /\ analysis = NoObject
    /\ passed = NoTable

TransformCall(df) ==
    [op |-> "create_double_demeaned_interaction",
     df |-> df, x_var |-> "x", z_var |-> "z"]

\* create_double_demeaned_interaction on every panel within the bounds
CallTransform ==
    /\ pc = "idle"
    /\ \E n \in 1..MaxRows :
       \E s \in UnitLabelings(n), xs \in [1..n -> Vals], zs \in [1..n -> Vals] :
          LET df == MakePanel(s, xs, zs)
          IN  /\ call' = TransformCall(df)
              /\ ret' = create_double_demeaned_interaction(df, "x", "z")
              /\ passed' = [before |-> df,
                            now |-> ArgumentAfterTransform(df, "x", "z")]
    /\ pc' = "returned"
    /\ UNCHANGED analysis

\* ... and on the panels of the package's own tests
CallTransformTest ==
    /\ pc = "idle"
    /\ \E df \in TestPanels :
          /\ call' = TransformCall(df)
          /\ ret' = create_double_demeaned_interaction(df, "x", "z")
          /\ passed' = [before |-> df,
                        now |-> ArgumentAfterTransform(df, "x", "z")]
    /\ pc' = "returned"
    /\ UNCHANGED analysis

(***************************************************************************)
(* Model results of the external fixed-effects engine (linearmodels).      *)
(*   params     : the regressor names, in index order                      *)
(*   coef       : coefficient, by position                                 *)
(*   std_errors : standard error, by position                              *)
(*   cov        : covariance matrix, by pair of positions                  *)
(*   finite     : FALSE when the matrices hold a NaN or an infinity        *)
(* The engine's covariance matrices are drawn diagonal, so that the        *)
(* eigenvalues of a matrix are its diagonal entries and the eigenvectors   *)
(* the unit vectors.                                                       *)
(***************************************************************************)
Estimate(c, seNum, seDen) == [coef |-> R(c), se |-> <<seNum, seDen>>]

EstimateSeq ==
    <<Estimate(0, 1, 10), Estimate(1, 1, 10), Estimate(1, 1, 20),
      Estimate(0, 1, 1), Estimate(1, 1, 5), Estimate(2, 1, 4)>>

NEstimates == 4     \* distinct estimates the engine may return

Estimates ==
    {EstimateSeq[i] : i \in 1..(IF NEstimates < Len(EstimateSeq)
                                THEN NEstimates ELSE Len(EstimateSeq))}

Fit(names, est, finite) ==
    [params |-> names,
     coef |-> [i \in DOMAIN names |-> est[i].coef],
     std_errors |-> [i \in DOMAIN names |-> est[i].se],
     cov |-> [q \in (DOMAIN names) \X (DOMAIN names) |->
                IF q[1] = q[2] THEN RMul(est[q[1]].se, est[q[1]].se) ELSE Zero],
     finite |-> finite]

\* index.get_loc(var)
GetLoc(names, var) == CHOOSE i \in DOMAIN names : names[i] = var
\* params[var]
Param(res, var) == res.coef[GetLoc(res.params, var)]
StdErr(res, var) == res.std_errors[GetLoc(res.params, var)]

(***************************************************************************)
(* Numerical thresholds, decided exactly on rationals a >= 0 scale m >= 0. *)
(***************************************************************************)
\* q < 10^10 and q < 2^52 for a natural number q
Below1e10(q) == (q \div 100000) \div 100000 = 0
Below2p52(q) == (q \div 67108864) \div 67108864 = 0

\* a > m * 1e-10
GtTimes1em10(a, m) ==
    /\ a[1] > 0
    /\ Below1e10((m[1] * a[2]) \div (a[1] * m[2]))

\* a > m * k * eps, eps = np.finfo(float).eps = 2^-52
GtTimesEps(a, m, k) ==
    /\ a[1] > 0
    /\ Below2p52((m[1] * k * a[2]) \div (a[1] * m[2]))

RAbs(a) == <<Abs(a[1]), a[2]>>
RMax(a, b) == IF RLt(a, b) THEN b ELSE a

RECURSIVE MaxAbs(_, _)
MaxAbs(v, k) == IF k = 0 THEN Zero ELSE RMax(RAbs(v[k]), MaxAbs(v, k - 1))

\* sum over the positions i <= k with keep[i] of d[i]^2 * w[i]
RECURSIVE QuadForm(_, _, _, _)
QuadForm(d, w, keep, k) ==
    IF k = 0 THEN Zero
    ELSE RAdd(IF keep[k] THEN RMul(RMul(d[k], d[k]), w[k]) ELSE Zero,
              QuadForm(d, w, keep, k - 1))

Inf == <<1, 0>>
Recip(a) == RDiv(R(1), a)

(***************************************************************************)
(* scipy.stats.chi2: the survival function 1 - cdf, exact at the tabulated *)
(* quantiles (levels 0.5, 0.05, 0.01) and at x <= 0, and rounded down to   *)
(* the next tabulated level in between.                                    *)
(***************************************************************************)
ChiSqQuantiles ==
    <<  <<455, 3841, 6635>>, <<1386, 5991, 9210>>, <<2366, 7815, 11345>>,
        <<3357, 9488, 13277>>, <<4351, 11070, 15086>>, <<5348, 12592, 16812>> >>

ChiSqSf(x, df) ==
    LET q == ChiSqQuantiles[df]
    IN  IF RLe(x, Zero) THEN R(1)
        ELSE IF RLe(x, <<q[1], 1000>>) THEN <<1, 2>>
        ELSE IF RLe(x, <<q[2], 1000>>) THEN <<1, 20>>
        ELSE IF RLe(x, <<q[3], 1000>>) THEN <<1, 100>>
        ELSE Zero

(***************************************************************************)
(* perform_hausman_test                                                    *)
(***************************************************************************)
NoneValue == [type |-> "None"]
Unbound == "<unbound>"

\* the loop over b_std.index without the interaction mapping
RECURSIVE CommonVarsSameNameOnly(_, _, _, _, _)
CommonVarsSameNameOnly(std, dd, intStd, intDd, k) ==
    IF k = 0 THEN <<>>
    ELSE LET var == std.params[k]
             rest == CommonVarsSameNameOnly(std, dd, intStd, intDd, k - 1)
         IN  IF InSeq(var, dd.params) /\ var # intStd THEN Append(rest, var)
             ELSE rest

\* the loop over b_std.index: the common coefficients, in index order
RECURSIVE CommonVars(_, _, _, _, _)
CommonVars(std, dd, intStd, intDd, k) ==
    IF k = 0 THEN <<>>
    ELSE LET var == std.params[k]
             rest == CommonVars(std, dd, intStd, intDd, k - 1)
         IN  IF var = intStd /\ InSeq(intDd, dd.params) THEN Append(rest, var)
             ELSE IF InSeq(var, dd.params) /\ var # intStd THEN Append(rest, var)
             ELSE rest

\* the generalized-inverse statistic without the final fallback
GeneralizedInverseStatNoFallback(diff, eig, n) ==
    LET max_eigenval == MaxAbs(eig, n)
        valid == [i \in 1..n |-> GtTimesEps(eig[i], max_eigenval, n)]
        inv == [i \in 1..n |-> IF eig[i] = Zero THEN Zero ELSE Recip(eig[i])]
        hausman_stat_1 ==
            IF \E i \in 1..n : valid[i] THEN QuadForm(diff, inv, valid, n) ELSE Inf
        s == [i \in 1..n |-> RAbs(eig[i])]
        kept == [i \in 1..n |-> GtTimes1em10(s[i], max_eigenval)]
        s_inv == [i \in 1..n |-> IF kept[i] THEN Recip(s[i]) ELSE Zero]
        hausman_stat_2 == QuadForm(diff, s_inv, kept, n)
    IN  IF hausman_stat_1 # Inf THEN hausman_stat_1 ELSE hausman_stat_2

\* the statistic when V_diff is not positive definite
GeneralizedInverseStat(diff, eig, n) ==
    LET max_eigenval == MaxAbs(eig, n)
        valid == [i \in 1..n |-> GtTimesEps(eig[i], max_eigenval, n)]
        inv == [i \in 1..n |-> IF eig[i] = Zero THEN Zero ELSE Recip(eig[i])]
        hausman_stat_1 ==
            IF \E i \in 1..n : valid[i] THEN QuadForm(diff, inv, valid, n) ELSE Inf
        s == [i \in 1..n |-> RAbs(eig[i])]
        kept == [i \in 1..n |-> GtTimes1em10(s[i], max_eigenval)]
        s_inv == [i \in 1..n |-> IF kept[i] THEN Recip(s[i]) ELSE Zero]
        hausman_stat_2 == QuadForm(diff, s_inv, kept, n)
        chosen == IF hausman_stat_1 # Inf THEN hausman_stat_1 ELSE hausman_stat_2
    IN  IF RLt(chosen, Zero) \/ RLt(R(100), chosen)
        THEN QuadForm(diff, inv, kept, n)       \* np.linalg.pinv, rcond=1e-10
        ELSE chosen

ConclusionAtMost(p_value) ==
    IF RLe(p_value, <<1, 20>>) THEN "SYSTEMATIC BIAS DETECTED" ELSE "NO SYSTEMATIC BIAS"
Conclusion(p_value) ==
    IF RLt(p_value, <<1, 20>>) THEN "SYSTEMATIC BIAS DETECTED" ELSE "NO SYSTEMATIC BIAS"

perform_hausman_test(std, dd, x_var, z_var, verbose) ==
    LET intStd == IntName(x_var, z_var)
        intDd == DdIntName(x_var, z_var)
        common_vars == CommonVars(std, dd, intStd, intDd, Len(std.params))
        n == Len(common_vars)
        std_indices == [i \in 1..n |-> GetLoc(std.params, common_vars[i])]
        dd_indices == [i \in 1..n |->
                         IF common_vars[i] # intStd
                         THEN GetLoc(dd.params, common_vars[i])
                         ELSE GetLoc(dd.params, intDd)]
        diff == [i \in 1..n |-> RSub(dd.coef[dd_indices[i]], std.coef[std_indices[i]])]
        V_diff == [q \in (1..n) \X (1..n) |->
                     RSub(dd.cov[<<dd_indices[q[1]], dd_indices[q[2]]>>],
                          std.cov[<<std_indices[q[1]], std_indices[q[2]]>>])]
        eig == [i \in 1..n |-> V_diff[<<i, i>>]]
        pos_def == \A i \in 1..n : GtTimes1em10(eig[i], R(1))
        hausman_stat ==
            IF pos_def
            THEN QuadForm(diff, [i \in 1..n |-> Recip(eig[i])], [i \in 1..n |-> TRUE], n)
            ELSE GeneralizedInverseStat(diff, eig, n)
        p_value == ChiSqSf(hausman_stat, n)
        conclusion == IF verbose THEN Conclusion(p_value) ELSE Unbound
    IN  IF n = 0 THEN Value(NoneValue)
        ELSE IF ~std.finite \/ ~dd.finite THEN Value(NoneValue)  \* LinAlgError, caught
        ELSE IF conclusion = Unbound THEN Value(NoneValue)      \* NameError, caught
        ELSE Value([type |-> "dict",
                    hausman_statistic |-> hausman_stat,
                    p_value |-> p_value,
                    degrees_of_freedom |-> n,
                    coefficient_differences |-> diff,
                    conclusion |-> conclusion,
                    positive_definite |-> pos_def])

\* the regressor lists of the model results handed to the test
StdNameLists ==
    {<<"x", "z", "int_x_z">>, <<"int_x_z", "x">>, <<"int_x_z">>, <<"z">>}
DdNameLists ==
    {<<"x", "z", "dd_int_x_z">>, <<"x", "dd_int_x_z">>, <<"x">>, <<"int_x_z", "x">>}

CallHausman ==
    /\ pc = "idle"
    /\ \E sn \in StdNameLists, dn \in DdNameLists, verbose \in BOOLEAN,
          sf \in BOOLEAN, df \in BOOLEAN :
       \E se \in [DOMAIN sn -> Estimates], de \in [DOMAIN dn -> Estimates] :
          LET std == Fit(sn, se, sf)
              dd == Fit(dn, de, df)
          IN  /\ call' = [op |-> "perform_hausman_test", standard_results |-> std,
                          dd_results |-> dd, x_var |-> "x", z_var |-> "z",
                          verbose |-> verbose]
              /\ ret' = perform_hausman_test(std, dd, "x", "z", verbose)
    /\ pc' = "returned"
    /\ UNCHANGED <<analysis, passed>>

(***************************************************************************)
(* check_within_unit_variation (utils.py)                                  *)
(***************************************************************************)
DefaultThreshold == <<5, 100>>

IsMultiIndex(df) == df.rows # <<>> /\ "unit" \in DOMAIN df.rows[1]

\* the group of row i: index level 0, or else the first column
GroupKey(df, i) ==
    IF IsMultiIndex(df) THEN df.rows[i].unit ELSE df.rows[i].v[df.cols[1]]
GroupKeys(df) == {GroupKey(df, i) : i \in DOMAIN df.rows}
GroupRows(df, g) == {i \in DOMAIN df.rows : GroupKey(df, i) = g}

\* q < 10^20 for a natural number q
Below1e20(q) == Below1e10((q \div 100000) \div 100000)

\* the square of the group's 'std' (ddof = 1); NaN for one row, filled with 0
GroupVariance(df, var, g) ==
    LET S == GroupRows(df, g)
        c == Column(df, var)
        m == Mean(c, S)
        sq == [i \in DOMAIN df.rows |-> RMul(RSub(c[i], m), RSub(c[i], m))]
    IN  IF Cardinality(S) = 1 THEN Zero
        ELSE RDiv(SumOver(sq, S), R(Cardinality(S) - 1))

\* std >= 0 instead
StdAtLeastZero(variance) == variance[1] >= 0

\* std > 1e-10, decided on the variance: std^2 > 1e-20
StdAbove1em10(variance) ==
    variance[1] > 0 /\ Below1e20(variance[2] \div variance[1])

NotFoundMessage(variable) == "Variable '" \o variable \o "' not found in data"

\* check_within_unit_variation that reports an absent variable as a variable
\* without any unit
check_within_unit_variation_unchecked(data, variable, min_variation_threshold) ==
    [variable |-> variable,
     total_units |-> 0,
     units_with_variation |-> 0,
     units_without_variation |-> 0,
     pct_with_variation |-> Zero,
     meets_threshold |-> FALSE,
     threshold_used |-> min_variation_threshold]

\* the standard deviations themselves (overall_std, within_unit_std,
\* between_unit_std) are irrational and are left out of the returned record
check_within_unit_variation(data, variable, min_variation_threshold) ==
    IF ~InSeq(variable, data.cols) THEN [error |-> NotFoundMessage(variable)]
    ELSE LET with == {g \in GroupKeys(data) :
                         /\ StdAbove1em10(GroupVariance(data, variable, g))
                         /\ Cardinality(GroupRows(data, g)) > 1}
             units_with_variation == Cardinality(with)
             total_units == Cardinality(GroupKeys(data))
             pct == IF total_units > 0
                    THEN RDiv(R(units_with_variation), R(total_units)) ELSE Zero
         IN  [variable |-> variable,
              total_units |-> total_units,
              units_with_variation |-> units_with_variation,
              units_without_variation |-> total_units - units_with_variation,
              pct_with_variation |-> pct,
              meets_threshold |-> RLe(min_variation_threshold, pct),
              threshold_used |-> min_variation_threshold]

(***************************************************************************)
(* estimate_fe_models and _create_comparison_table                         *)
(***************************************************************************)
NameSet(names) == {names[i] : i \in DOMAIN names}

\* the rows of the comparison DataFrame; their order (the iteration order
\* of a Python set) is not modelled
create_comparison_table(standard_results, dd_results, x_var, z_var) ==
    LET std == standard_results
        dd == dd_results
        int == IntName(x_var, z_var)
        ddint == DdIntName(x_var, z_var)
        both == NameSet(std.params) \cap NameSet(dd.params)
        common_vars == IF InSeq(int, std.params) THEN both \cup {int} ELSE both
        shown == {v \in common_vars : InSeq(v, std.params) /\ InSeq(v, dd.params)}
        ddName(v) == IF v # int THEN v ELSE ddint
    IN  IF \E v \in shown : ~InSeq(ddName(v), dd.params) THEN Raise("KeyError")
        ELSE Value({[Variable |-> v,
                     Std_FE_Coef |-> Param(std, v),
                     Std_FE_SE |-> StdErr(std, v),
                     DD_Coef |-> Param(dd, ddName(v)),
                     DD_SE |-> StdErr(dd, ddName(v)),
                     Difference |-> RSub(Param(std, v), Param(dd, ddName(v)))]
                    : v \in shown})

\* pct_variation < 5.0
ControlExcludedAtMost(pct_variation) == RLe(pct_variation, R(5))
ControlExcluded(pct_variation) == RLt(pct_variation, R(5))

\* the loop over all_vars: the controls kept, in order
RECURSIVE FilterControls(_, _, _, _)
FilterControls(df, all_vars, w_vars, k) ==
    IF k = 0 THEN <<>>
    ELSE LET var == all_vars[k]
             rest == FilterControls(df, all_vars, w_vars, k - 1)
         IN  IF ~InSeq(var, df.cols) THEN rest
             ELSE LET variation_check ==
                          check_within_unit_variation(df, var, DefaultThreshold)
                      pct_variation ==
                          RDiv(R(100 * variation_check.units_with_variation),
                               R(variation_check.total_units))
                  IN  IF InSeq(var, w_vars) /\ ControlExcluded(pct_variation) THEN rest
                      ELSE IF InSeq(var, w_vars) THEN Append(rest, var)
                      ELSE rest

MissingColumn(df, names) == \E i \in DOMAIN names : ~InSeq(names[i], df.cols)

\* engineStd, engineDd: what the engine does with the first and the second
\* fit: [error |-> "none", est |-> estimates by position] or [error |-> kind]
estimate_fe_models(df, y_var, x_var, z_var, w_vars, engineStd, engineDd) ==
    LET all_vars == <<y_var, x_var, z_var>> \o w_vars
        filtered_w_vars == FilterControls(df, all_vars, w_vars, Len(all_vars))
        exog_vars_std == <<x_var, z_var, IntName(x_var, z_var)>> \o filtered_w_vars
        exog_vars_dd == <<x_var, z_var, DdIntName(x_var, z_var)>> \o filtered_w_vars
    IN  IF ~InSeq(y_var, df.cols) \/ MissingColumn(df, exog_vars_std)
        THEN Raise("KeyError")
        ELSE IF engineStd.error # "none" THEN Raise(engineStd.error)
        ELSE IF MissingColumn(df, exog_vars_dd) THEN Raise("KeyError")
        ELSE IF engineDd.error # "none" THEN Raise(engineDd.error)
        ELSE LET standard_results == Fit(exog_vars_std, engineStd.est, TRUE)
                 dd_results == Fit(exog_vars_dd, engineDd.est, TRUE)
                 comparison ==
                     create_comparison_table(standard_results, dd_results, x_var, z_var)
             IN  IF comparison.raised # "none" THEN Raise(comparison.raised)
                 ELSE Value([standard_results |-> standard_results,
                             dd_results |-> dd_results,
                             comparison_df |-> comparison.value])

(***************************************************************************)
(* The engine's behaviour and the tables handed to estimate_fe_models.     *)
(***************************************************************************)
EngineErrors == {"ValueError", "AbsorbingEffectError"}

EngineOutcomes(k) ==
    {[error |-> e] : e \in EngineErrors}
        \cup {[error |-> "none", est |-> f] : f \in [1..k -> Estimates]}

\* one fixed successful outcome, for any number of regressors up to 5
FixedOutcome == [error |-> "none", est |-> [i \in 1..5 |-> EstimateSeq[(i % 3) + 1]]]

MaxEstUnits == 21   \* units of a panel with controls
MaxVarying == 2     \* units in which the control w1 varies

Min(a, b) == IF a < b THEN a ELSE b

\* n units of two periods; w1 varies within the first k1 units, w2 within
\* the last k2 units
ControlPanel(n, k1, k2) ==
    [cols |-> <<"y", "x", "z", "w1", "w2">>,
     rows |-> [i \in 1..(2 * n) |->
        LET u == (i + 1) \div 2
            t == 2 - (i % 2)
        IN  [unit |-> u, time |-> t,
             v |-> [c \in {"y", "x", "z", "w1", "w2"} |->
                      IF c = "y" THEN R(i)
                      ELSE IF c = "x" THEN R(t)
                      ELSE IF c = "z" THEN R(u * t)
                      ELSE IF c = "w1" THEN (IF u <= k1 THEN R(t) ELSE R(u))
                      ELSE (IF u > n - k2 THEN R(t) ELSE R(0))]]]]

ControlLists == {<<>>, <<"w1">>, <<"w1", "w2">>, <<"w2", "absent">>}

DropColumn(df, var) ==
    [cols |-> SelectSeq(df.cols, LAMBDA c : c # var),
     rows |-> [i \in DOMAIN df.rows |->
                 [df.rows[i] EXCEPT !.v = [c \in (DOMAIN @) \ {var} |-> @[c]]]]]

SmallPanel == MakePanel(<<1, 1, 2, 2>>, <<1, 3, 2, 4>>, <<2, 4, 1, 3>>)

\* a transformed panel, one without y, one never transformed, and one that
\* lost its double-demeaned interaction column
EstimateTables ==
    {create_double_demeaned_interaction(SmallPanel, "x", "z").value,
     DropColumn(create_double_demeaned_interaction(SmallPanel, "x", "z").value, "y"),
     SmallPanel,
     DropColumn(create_double_demeaned_interaction(SmallPanel, "x", "z").value,
                "dd_int_x_z")}

EstimateCall(df, w_vars, engineStd, engineDd) ==
    [op |-> "estimate_fe_models", df |-> df, y_var |-> "y", x_var |-> "x",
     z_var |-> "z", w_vars |-> w_vars,
     engine |-> [std |-> engineStd, dd |-> engineDd]]

\* estimate_fe_models on small tables, over the engine's outcomes
CallEstimate ==
    /\ pc = "idle"
    /\ \E df \in EstimateTables :
       \E engineStd \in EngineOutcomes(3), engineDd \in EngineOutcomes(3) :
          /\ call' = EstimateCall(df, <<>>, engineStd, engineDd)
          /\ ret' = estimate_fe_models(df, "y", "x", "z", <<>>, engineStd, engineDd)
    /\ pc' = "returned"
    /\ UNCHANGED <<analysis, passed>>

\* estimate_fe_models on panels with controls, the engine succeeding
CallEstimateControls ==
    /\ pc = "idle"
    /\ \E n \in 1..MaxEstUnits, w_vars \in ControlLists :
       \E k1 \in 0..Min(n, MaxVarying), k2 \in 0..Min(n, 1) :
          LET df == create_double_demeaned_interaction(
                        ControlPanel(n, k1, k2), "x", "z").value
          IN  /\ call' = EstimateCall(df, w_vars, FixedOutcome, FixedOutcome)
              /\ ret' = estimate_fe_models(df, "y", "x", "z", w_vars,
                                           FixedOutcome, FixedOutcome)
    /\ pc' = "returned"
    /\ UNCHANGED <<analysis, passed>>

(***************************************************************************)
(* validate_panel_data (utils.py) and DoubleDemeanAnalysis (core.py).      *)
(* A table that is not yet indexed has rows [v |-> ...] only; a missing    *)
(* value is NaN.                                                           *)
(***************************************************************************)
NaN == <<0, 0>>

HasNull(data, var) == \E i \in DOMAIN data.rows : data.rows[i].v[var] = NaN

RaiseMsg(kind, message) == [raised |-> kind, message |-> message]

\* the values of a column that are not missing
ValuesOf(data, var) ==
    {data.rows[i].v[var] : i \in DOMAIN data.rows} \ {NaN}

\* data.groupby(unit_var)[time_var].count(): for each unit (rows with a
\* missing unit are dropped), its number of rows with a time
PeriodCount(data, unit_var, time_var) ==
    [u \in ValuesOf(data, unit_var) |->
        Cardinality({i \in DOMAIN data.rows :
                        /\ data.rows[i].v[unit_var] = u
                        /\ data.rows[i].v[time_var] # NaN})]

\* data.groupby(unit_var)[time_var].nunique()
PeriodNunique(data, unit_var, time_var) ==
    [u \in ValuesOf(data, unit_var) |->
        Cardinality({data.rows[i].v[time_var] :
                        i \in {j \in DOMAIN data.rows :
                                  data.rows[j].v[unit_var] = u}} \ {NaN})]

\* len(series.unique()) == 1
AllSame(series) == Cardinality({series[u] : u \in DOMAIN series}) = 1

\* validate_panel_data that does not look for missing times
validate_panel_data_no_time_check(data, unit_var, time_var) ==
    IF ~InSeq(unit_var, data.cols) \/ ~InSeq(time_var, data.cols)
    THEN RaiseMsg("ValueError", "Required columns missing")
    ELSE IF HasNull(data, unit_var)
    THEN RaiseMsg("ValueError", "Missing values found in unit variable")
    ELSE [raised |-> "none", value |-> data,
          printed |-> [units_with_single_obs |-> 0, warning |-> FALSE,
                       panel_type |-> "Balanced"]]

\* validate_panel_data that rejects a unit with a single observation
validate_panel_data_strict(data, unit_var, time_var) ==
    IF ~InSeq(unit_var, data.cols) \/ ~InSeq(time_var, data.cols)
    THEN RaiseMsg("ValueError", "Required columns missing")
    ELSE IF HasNull(data, unit_var)
    THEN RaiseMsg("ValueError", "Missing values found in unit variable")
    ELSE IF HasNull(data, time_var)
    THEN RaiseMsg("ValueError", "Missing values found in time variable")
    ELSE LET panel_structure == PeriodCount(data, unit_var, time_var)
         IN  IF \E u \in DOMAIN panel_structure : panel_structure[u] = 1
             THEN RaiseMsg("ValueError", "units have only 1 observation")
             ELSE [raised |-> "none", value |-> data,
                   printed |-> [units_with_single_obs |-> 0, warning |-> FALSE,
                                panel_type |-> IF AllSame(panel_structure)
                                               THEN "Balanced" ELSE "Unbalanced"]]

\* the table returned is the table passed in (return data); printed: the
\* single-observation warning and the panel type of the summary
validate_panel_data(data, unit_var, time_var) ==
    IF ~InSeq(unit_var, data.cols) \/ ~InSeq(time_var, data.cols)
    THEN RaiseMsg("ValueError", "Required columns missing")
    ELSE IF HasNull(data, unit_var)
    THEN RaiseMsg("ValueError", "Missing values found in unit variable")
    ELSE IF HasNull(data, time_var)
    THEN RaiseMsg("ValueError", "Missing values found in time variable")
    ELSE LET panel_structure == PeriodCount(data, unit_var, time_var)
             units_with_single_obs ==
                 Cardinality({u \in DOMAIN panel_structure : panel_structure[u] = 1})
             is_balanced == AllSame(panel_structure)
         IN  [raised |-> "none", value |-> data,
              printed |-> [units_with_single_obs |-> units_with_single_obs,
                           warning |-> units_with_single_obs > 0,
                           panel_type |-> IF is_balanced
                                          THEN "Balanced" ELSE "Unbalanced"]]

\* the smallest / largest entry of a series of counts; NaN when it is empty
SeriesMin(series) ==
    IF DOMAIN series = {} THEN NaN
    ELSE R(CHOOSE m \in {series[u] : u \in DOMAIN series} :
               \A u \in DOMAIN series : m <= series[u])
SeriesMax(series) ==
    IF DOMAIN series = {} THEN NaN
    ELSE R(CHOOSE m \in {series[u] : u \in DOMAIN series} :
               \A u \in DOMAIN series : m >= series[u])

\* data.isnull().sum().sum()
TotalMissing(data) ==
    Cardinality({<<i, c>> \in (DOMAIN data.rows) \X NameSet(data.cols) :
                    data.rows[i].v[c] = NaN})

\* mean_periods is left out of the returned record
summarize_panel_structure(data, unit_var, time_var) ==
    IF ~InSeq(unit_var, data.cols) \/ ~InSeq(time_var, data.cols)
    THEN Raise("KeyError")
    ELSE LET periods_per_unit == PeriodNunique(data, unit_var, time_var)
             units_insufficient ==
                 Cardinality({u \in DOMAIN periods_per_unit : periods_per_unit[u] <= 2})
             total_missing == TotalMissing(data)
         IN  Value([n_observations |-> Len(data.rows),
                    n_units |-> Cardinality(ValuesOf(data, unit_var)),
                    n_periods |-> Cardinality(ValuesOf(data, time_var)),
                    min_periods |-> SeriesMin(periods_per_unit),
                    max_periods |-> SeriesMax(periods_per_unit),
                    units_insufficient |-> units_insufficient,
                    is_balanced |-> AllSame(periods_per_unit),
                    total_missing |-> total_missing,
                    meets_requirements |->
                        units_insufficient = 0 /\ total_missing = 0])

\* data.set_index([unit_var, time_var])
SetIndex(data, unit_var, time_var) ==
    [cols |-> SelectSeq(data.cols, LAMBDA c : c # unit_var /\ c # time_var),
     rows |-> [i \in DOMAIN data.rows |->
                 [unit |-> data.rows[i].v[unit_var],
                  time |-> data.rows[i].v[time_var],
                  v |-> [c \in (DOMAIN data.rows[i].v) \ {unit_var, time_var} |->
                           data.rows[i].v[c]]]]]

\* Column types.  A table may carry dtypes, a map from some of its columns
\* to "object" or "category"; every other column is float64.  The cells of
\* an object or category column are the numbers its strings / categories
\* spell, so pd.to_numeric keeps the cell and changes the type (the codes of
\* non-numeric categories are not modelled).  Types are tracked on the
\* tables the caller passes, not on the indexed copies made from them.
DtypeOf(data, var) ==
    IF "dtypes" \in DOMAIN data /\ var \in DOMAIN data.dtypes
    THEN data.dtypes[var] ELSE "float64"

\* self.data[var] = pd.to_numeric(self.data[var], errors='coerce')
ToNumeric(data, var) ==
    IF "dtypes" \in DOMAIN data
    THEN [data EXCEPT !.dtypes = [c \in DOMAIN @ |-> IF c = var THEN "float64" ELSE @[c]]]
    ELSE data

\* the loop of _prepare_data over analysis_vars, on the table self.data
RECURSIVE ConvertColumns(_, _, _)
ConvertColumns(data, analysis_vars, k) ==
    IF k = 0 THEN data
    ELSE LET done == ConvertColumns(data, analysis_vars, k - 1)
             var == analysis_vars[k]
         IN  IF InSeq(var, done.cols) /\ DtypeOf(done, var) \in {"category", "object"}
             THEN ToNumeric(done, var)
             ELSE done

\* self.data after _prepare_data: converted in place, then indexed
prepare_data(data, unit_var, time_var, analysis_vars) ==
    LET converted == ConvertColumns(data, analysis_vars, Len(analysis_vars))
    IN  IF IsMultiIndex(converted) THEN converted
        ELSE SetIndex(converted, unit_var, time_var)

\* the caller's table after DoubleDemeanAnalysis(data, ...): validate_panel_data
\* returns the table it was given, so self.data is the caller's table while
\* _prepare_data converts its columns
DataAfterInit(data, unit_var, time_var, y_var, x_var, z_var, w_vars) ==
    LET analysis_vars == <<y_var, x_var, z_var>> \o w_vars
    IN  IF validate_panel_data(data, unit_var, time_var).raised # "none" THEN data
        ELSE ConvertColumns(data, analysis_vars, Len(analysis_vars))

\* DoubleDemeanAnalysis.__init__
NewAnalysis(data, unit_var, time_var, y_var, x_var, z_var, w_vars) ==
    LET validated == validate_panel_data(data, unit_var, time_var)
    IN  IF validated.raised # "none" THEN Raise(validated.raised)
        ELSE Value([class |-> "DoubleDemeanAnalysis",
                    unit_var |-> unit_var, time_var |-> time_var,
                    y_var |-> y_var, x_var |-> x_var, z_var |-> z_var,
                    w_vars |-> w_vars,
                    data |-> prepare_data(validated.value, unit_var, time_var,
                                          <<y_var, x_var, z_var>> \o w_vars),
                    results |-> <<>>])

\* a shift of one variable by its first value instead of its mean
CenterColumnOnFirstValue(df, var) ==
    LET c == Column(df, var)
    IN  SetColumn(df, var, [i \in DOMAIN df.rows |-> RSub(c[i], c[1])])

\* df[var] = df[var] - df[var].mean(), for one variable
CenterColumn(df, var) ==
    LET c == Column(df, var)
        original_mean == Mean(c, DOMAIN df.rows)
    IN  SetColumn(df, var, [i \in DOMAIN df.rows |-> RSub(c[i], original_mean)])

RECURSIVE CenterColumns(_, _, _)
CenterColumns(df, variables, k) ==
    IF k = 0 THEN df
    ELSE LET done == CenterColumns(df, variables, k - 1)
         IN  IF InSeq(variables[k], done.cols)
             THEN CenterColumn(done, variables[k]) ELSE done

apply_grand_mean_centering(self, df) ==
    LET variables_to_center == <<self.y_var, self.x_var, self.z_var>> \o self.w_vars
    IN  CenterColumns(df, variables_to_center, Len(variables_to_center))

\* FinishAnalysis that fails when the Hausman test gave no result
FinishAnalysisStrict(self, transformed, estimated, run_hausman, verbose) ==
    IF estimated.raised # "none" THEN Raise(estimated.raised)
    ELSE LET hausman_results ==
                 IF run_hausman
                 THEN perform_hausman_test(estimated.value.standard_results,
                                           estimated.value.dd_results,
                                           self.x_var, self.z_var, verbose).value
                 ELSE NoneValue
         IN  IF hausman_results = NoneValue THEN Raise("TypeError")
             ELSE Value([standard_results |-> estimated.value.standard_results,
                         dd_results |-> estimated.value.dd_results,
                         comparison_df |-> estimated.value.comparison_df,
                         hausman_test |-> hausman_results,
                         processed_data |-> transformed.value])

\* run_analysis once the panel is transformed and the models are estimated:
\* the Hausman test, and the results the object stores
FinishAnalysis(self, transformed, estimated, run_hausman, verbose) ==
    IF estimated.raised # "none" THEN Raise(estimated.raised)
    ELSE Value([standard_results |-> estimated.value.standard_results,
                dd_results |-> estimated.value.dd_results,
                comparison_df |-> estimated.value.comparison_df,
                hausman_test |->
                    IF run_hausman
                    THEN perform_hausman_test(estimated.value.standard_results,
                                              estimated.value.dd_results,
                                              self.x_var, self.z_var, verbose).value
                    ELSE NoneValue,
                processed_data |-> transformed.value])

\* self.data after a run that centers self.data itself
DataCenteredInPlace(self, center_variables) ==
    IF center_variables THEN apply_grand_mean_centering(self, self.data)
    ELSE self.data

\* self.data after run_analysis: df_work = self.data.copy(), so centering
\* and the transformer assign to the columns of a copy
DataAfterRun(self, center_variables) == self.data

\* self.results after a run that empties the results when it fails
ResultsClearedOnFailure(self, outcome) ==
    IF outcome.raised = "none" THEN outcome.value ELSE <<>>

\* self.results after run_analysis: assigned after the last stage returned
ResultsAfterRun(self, outcome) ==
    IF outcome.raised = "none" THEN outcome.value ELSE self.results

\* the stages of DoubleDemeanAnalysis.__init__, in the order they are called
InitStages(data, unit_var, time_var) ==
    IF validate_panel_data(data, unit_var, time_var).raised # "none"
    THEN <<"validate_panel_data">>
    ELSE <<"validate_panel_data", "_prepare_data">>

\* the variation checks of the loop over all_vars of estimate_fe_models
RECURSIVE VariationChecks(_, _, _)
VariationChecks(df, all_vars, k) ==
    IF k = 0 THEN <<>>
    ELSE VariationChecks(df, all_vars, k - 1)
            \o (IF InSeq(all_vars[k], df.cols)
                THEN <<"check_within_unit_variation">> ELSE <<>>)

\* the calls estimate_fe_models makes, in order, up to the one that raises
EstimateStages(df, y_var, x_var, z_var, w_vars, engineStd, engineDd) ==
    LET all_vars == <<y_var, x_var, z_var>> \o w_vars
        filtered_w_vars == FilterControls(df, all_vars, w_vars, Len(all_vars))
        exog_vars_std == <<x_var, z_var, IntName(x_var, z_var)>> \o filtered_w_vars
        exog_vars_dd == <<x_var, z_var, DdIntName(x_var, z_var)>> \o filtered_w_vars
        checks == VariationChecks(df, all_vars, Len(all_vars))
    IN  IF ~InSeq(y_var, df.cols) \/ MissingColumn(df, exog_vars_std) THEN checks
        ELSE IF engineStd.error # "none" \/ MissingColumn(df, exog_vars_dd)
        THEN checks \o <<"standard_model.fit">>
        ELSE IF engineDd.error # "none"
        THEN checks \o <<"standard_model.fit", "dd_model.fit">>
        ELSE checks \o <<"standard_model.fit", "dd_model.fit",
                         "_create_comparison_table">>

\* the stages of a run that tests before it estimates
RunStagesHausmanFirst(self, center_variables, run_hausman, transformed, estimated, engineStd, engineDd) ==
    (IF center_variables THEN <<"_apply_grand_mean_centering">> ELSE <<>>)
        \o <<"create_double_demeaned_interaction">>
        \o (IF transformed.raised # "none" THEN <<>>
            ELSE (IF run_hausman THEN <<"perform_hausman_test">> ELSE <<>>)
                    \o EstimateStages(transformed.value, self.y_var, self.x_var,
                                      self.z_var, self.w_vars, engineStd, engineDd))

\* the stages of run_analysis, in the order they are called, up to the one
\* that raises
RunStages(self, center_variables, run_hausman, transformed, estimated, engineStd, engineDd) ==
    (IF center_variables THEN <<"_apply_grand_mean_centering">> ELSE <<>>)
        \o <<"create_double_demeaned_interaction">>
        \o (IF transformed.raised # "none" THEN <<>>
            ELSE EstimateStages(transformed.value, self.y_var, self.x_var,
                                self.z_var, self.w_vars, engineStd, engineDd)
                    \o (IF estimated.raised = "none" /\ run_hausman
                        THEN <<"perform_hausman_test">> ELSE <<>>))

\* the outcome of run_analysis, with what its call of estimate_fe_models did;
\* each stage is evaluated once and its result handed to the next
run_analysis(self, center_variables, run_hausman, verbose, engineStd, engineDd) ==
    CHOOSE run \in
        {[estimate |-> estimated,
          stages |-> RunStages(self, center_variables, run_hausman, transformed,
                               estimated, engineStd, engineDd),
          outcome |-> FinishAnalysis(self, transformed, estimated, run_hausman, verbose)] :
            <<transformed, estimated>> \in
                {<<t, IF t.raised = "none"
                      THEN estimate_fe_models(t.value, self.y_var, self.x_var,
                                              self.z_var, self.w_vars,
                                              engineStd, engineDd)
                      ELSE Raise(t.raised)>> :
                    t \in {create_double_demeaned_interaction(
                               IF center_variables
                               THEN apply_grand_mean_centering(self, self.data)
                               ELSE self.data,
                               self.x_var, self.z_var)}}} : TRUE

(***************************************************************************)
(* The tables given to DoubleDemeanAnalysis and the engine's outcomes.     *)
(***************************************************************************)
RawColumns == <<"unit_id", "time_id", "y", "x", "z", "w1">>

RawTable(units, xs, zs, ws) ==
    [cols |-> RawColumns,
     rows |-> [i \in DOMAIN units |->
                 [v |-> [c \in NameSet(RawColumns) |->
                           IF c = "unit_id" THEN R(units[i])
                           ELSE IF c = "time_id" THEN R(TimeOf(units, i))
                           ELSE IF c = "y" THEN R(i)
                           ELSE IF c = "x" THEN R(xs[i])
                           ELSE IF c = "z" THEN R(zs[i])
                           ELSE R(ws[i])]]]]

FullTables ==
    {RawTable(<<1, 1, 2, 2>>, <<1, 3, 2, 4>>, <<2, 4, 1, 3>>, <<0, 1, 5, 5>>),
     RawTable(<<1, 1, 1, 2>>, <<-1, 0, 1, 2>>, <<1, 0, 1, 0>>, <<3, 3, 3, 3>>)}

\* y holding numbers as strings, w1 categorical
TypedTable ==
    [cols |-> RawColumns,
     rows |-> RawTable(<<1, 1, 2, 2>>, <<1, 3, 2, 4>>, <<2, 4, 1, 3>>,
                       <<0, 1, 5, 5>>).rows,
     dtypes |-> [c \in {"y", "w1"} |-> IF c = "y" THEN "object" ELSE "category"]]

\* unit 1 observed twice in period 1
DuplicatedTable ==
    SetColumn(RawTable(<<1, 1, 2, 2>>, <<1, 3, 2, 4>>, <<2, 4, 1, 3>>, <<0, 1, 5, 5>>),
              "time_id", <<R(1), R(1), R(1), R(2)>>)

\* a missing unit identifier
NullIdTable ==
    SetColumn(RawTable(<<1, 1, 2, 2>>, <<1, 3, 2, 4>>, <<2, 4, 1, 3>>, <<0, 1, 5, 5>>),
              "unit_id", <<R(1), R(1), NaN, R(2)>>)

RawTables ==
    FullTables
        \cup {DropColumn(t, c) : t \in FullTables, c \in {"y", "z", "time_id"}}
        \cup {TypedTable, DuplicatedTable, NullIdTable}

AnalysisOutcomes(k) ==
    {[error |-> e] : e \in EngineErrors}
        \cup {[error |-> "none", est |-> [i \in 1..k |-> EstimateSeq[((i + j) % 3) + 1]]]
                : j \in 0..1}

Construct ==
    /\ pc = "idle"
    /\ analysis = NoObject
    /\ \E data \in RawTables, w_vars \in {<<>>, <<"w1">>} :
          LET made == NewAnalysis(data, "unit_id", "time_id", "y", "x", "z", w_vars)
          IN  /\ call' = [op |-> "DoubleDemeanAnalysis", data |-> data,
                          w_vars |-> w_vars,
                          stages |-> InitStages(data, "unit_id", "time_id")]
              /\ ret' = made
              /\ analysis' = IF made.raised = "none" THEN made.value ELSE analysis
              /\ passed' = [before |-> data,
                            now |-> DataAfterInit(data, "unit_id", "time_id",
                                                  "y", "x", "z", w_vars)]
    /\ pc' = "returned"

RunAnalysis ==
    /\ pc = "idle"
    /\ analysis # NoObject
    /\ \E center_variables \in BOOLEAN, run_hausman \in BOOLEAN, verbose \in BOOLEAN :
       \E engineStd \in AnalysisOutcomes(4), engineDd \in AnalysisOutcomes(4) :
       \E run \in {run_analysis(analysis, center_variables, run_hausman, verbose,
                                engineStd, engineDd)} :
          /\ call' = [op |-> "run_analysis",
                      center_variables |-> center_variables,
                      run_hausman |-> run_hausman, verbose |-> verbose,
                      engine |-> [std |-> engineStd, dd |-> engineDd],
                      estimate |-> run.estimate,
                      stages |-> run.stages,
                      results_before |-> analysis.results]
          /\ ret' = run.outcome
          /\ analysis' = [analysis EXCEPT
                              !.data = DataAfterRun(analysis, center_variables),
                              !.results = ResultsAfterRun(analysis, run.outcome)]
    \* df_work = self.data.copy(): the run works on a copy of the indexed panel
    /\ passed' = passed
    /\ pc' = "returned"

(***************************************************************************)
(* The tables given to the panel validator and to the panel summary.       *)
(***************************************************************************)
IdColumns == <<"unit_id", "time_id", "value">>

\* identifiers 1..MaxUnits, or missing
IdCells == {NaN} \cup {R(k) : k \in 1..MaxUnits}

IdTable(units, times) ==
    [cols |-> IdColumns,
     rows |-> [i \in DOMAIN units |->
                 [v |-> [c \in NameSet(IdColumns) |->
                           IF c = "unit_id" THEN units[i]
                           ELSE IF c = "time_id" THEN times[i]
                           ELSE R(10 * i)]]]]

\* the tables of tests/test_utils.py for a missing identifier column
TablesWithoutId ==
    {DropColumn(IdTable(<<R(1), R(1), R(2)>>, <<R(1), R(2), R(1)>>), c) :
        c \in {"unit_id", "time_id"}}

ValidateCall(op, data) ==
    [op |-> op, data |-> data, unit_var |-> "unit_id", time_var |-> "time_id"]

CallValidate ==
    /\ pc = "idle"
    /\ \E n \in 1..MaxRows :
       \E units \in [1..n -> IdCells], times \in [1..n -> IdCells] :
          \E data \in {IdTable(units, times)} :
             /\ call' = ValidateCall("validate_panel_data", data)
             /\ ret' = validate_panel_data(data, "unit_id", "time_id")
    /\ pc' = "returned"
    /\ UNCHANGED <<analysis, passed>>

CallValidateWithoutId ==
    /\ pc = "idle"
    /\ \E data \in TablesWithoutId :
          /\ call' = ValidateCall("validate_panel_data", data)
          /\ ret' = validate_panel_data(data, "unit_id", "time_id")
    /\ pc' = "returned"
    /\ UNCHANGED <<analysis, passed>>

CallSummarize ==
    /\ pc = "idle"
    /\ \E n \in 1..MaxRows :
       \E units \in [1..n -> IdCells], times \in [1..n -> IdCells] :
          \E data \in {IdTable(units, times)} :
             /\ call' = ValidateCall("summarize_panel_structure", data)
             /\ ret' = summarize_panel_structure(data, "unit_id", "time_id")
    /\ pc' = "returned"
    /\ UNCHANGED <<analysis, passed>>

CallSummarizeWithoutId ==
    /\ pc = "idle"
    /\ \E data \in TablesWithoutId :
          /\ call' = ValidateCall("summarize_panel_structure", data)
          /\ ret' = summarize_panel_structure(data, "unit_id", "time_id")
    /\ pc' = "returned"
    /\ UNCHANGED <<analysis, passed>>

(***************************************************************************)
(* The tables given to the variation checker.                              *)
(***************************************************************************)
\* the indexed tables of tests/test_utils.py
VariationPanel(units, values) ==
    [cols |-> <<"variable">>,
     rows |-> [i \in DOMAIN units |->
                 [unit |-> units[i], time |-> TimeOf(units, i),
                  v |-> [c \in {"variable"} |-> R(values[i])]]]]

VariationPanels ==
    {VariationPanel(<<1, 1, 1, 2, 2, 2>>, <<1, 2, 3, 4, 5, 6>>),
     VariationPanel(<<1, 1, 1, 2, 2, 2>>, <<1, 1, 1, 2, 2, 2>>),
     VariationPanel(<<1, 1, 2, 2>>, <<1, 2, 3, 4>>),
     VariationPanel(<<1, 1, 2, 2, 3>>, <<1, 2, 3, 3, 4>>)}

VariationNames == {"x", "variable", "missing_variable"}

VariationCall(data, variable) ==
    [op |-> "check_within_unit_variation", data |-> data, variable |-> variable,
     min_variation_threshold |-> DefaultThreshold]

\* on the panels within the bounds, indexed by (unit, time) ...
CallVariation ==
    /\ pc = "idle"
    /\ \E n \in 1..MaxRows, variable \in VariationNames :
       \E s \in UnitLabelings(n), xs \in [1..n -> Vals] :
       \E data \in {MakePanel(s, xs, [i \in 1..n |-> 0])} :
          /\ call' = VariationCall(data, variable)
          /\ ret' = Value(check_within_unit_variation(data, variable, DefaultThreshold))
    /\ pc' = "returned"
    /\ UNCHANGED <<analysis, passed>>

\* ... on tables that are not indexed, the first column being the unit ...
CallVariationUnindexed ==
    /\ pc = "idle"
    /\ \E n \in 1..MaxRows, variable \in VariationNames \cup {"time_id"} :
       \E s \in UnitLabelings(n), xs \in [1..n -> Vals] :
       \E data \in {DropColumn(RawTable(s, xs, xs, xs), "w1")} :
          /\ call' = VariationCall(data, variable)
          /\ ret' = Value(check_within_unit_variation(data, variable, DefaultThreshold))
    /\ pc' = "returned"
    /\ UNCHANGED <<analysis, passed>>

\* ... and on the tables of the package's own tests
CallVariationTest ==
    /\ pc = "idle"
    /\ \E data \in VariationPanels, variable \in VariationNames :
          /\ call' = VariationCall(data, variable)
          /\ ret' = Value(check_within_unit_variation(data, variable, DefaultThreshold))
    /\ pc' = "returned"
    /\ UNCHANGED <<analysis, passed>>

(***************************************************************************)
(* filter_units_by_time_periods (utils.py)                                 *)
(***************************************************************************)
\* data.groupby(unit_var).size(): the number of rows of each unit; rows
\* with a missing unit belong to no group
UnitSize(data, unit_var) ==
    [u \in ValuesOf(data, unit_var) |->
        Cardinality({i \in DOMAIN data.rows : data.rows[i].v[unit_var] = u})]

\* the filter keeping the units with more than min_periods rows
filter_units_above(data, unit_var, min_periods) ==
    IF ~InSeq(unit_var, data.cols) THEN Raise("KeyError")
    ELSE LET unit_periods == UnitSize(data, unit_var)
             units_to_keep == {u \in DOMAIN unit_periods : unit_periods[u] > min_periods}
         IN  Value([data EXCEPT
                      !.rows = SelectSeq(@, LAMBDA r : r.v[unit_var] \in units_to_keep)])

\* the table returned is a copy holding the kept rows in their order
filter_units_by_time_periods(data, unit_var, min_periods) ==
    IF ~InSeq(unit_var, data.cols) THEN Raise("KeyError")
    ELSE LET unit_periods == UnitSize(data, unit_var)
             units_to_keep == {u \in DOMAIN unit_periods : unit_periods[u] >= min_periods}
         IN  Value([data EXCEPT
                      !.rows = SelectSeq(@, LAMBDA r : r.v[unit_var] \in units_to_keep)])

\* the tables of tests/test_utils.py
FilterTestTables ==
    {IdTable(<<R(1), R(1), R(1), R(2), R(2), R(3)>>,
             <<R(1), R(2), R(3), R(1), R(2), R(1)>>),
     IdTable(<<R(1), R(1), R(1), R(2), R(2), R(2)>>,
             <<R(1), R(2), R(3), R(1), R(2), R(3)>>)}

FilterCall(data, min_periods) ==
    [op |-> "filter_units_by_time_periods", data |-> data,
     unit_var |-> "unit_id", min_periods |-> min_periods]

CallFilter ==
    /\ pc = "idle"
    /\ \E n \in 1..MaxRows, min_periods \in 0..(MaxRows + 1) :
       \E units \in [1..n -> IdCells] :
       \E data \in {IdTable(units, [i \in 1..n |-> R(i)])} :
          /\ call' = FilterCall(data, min_periods)
          /\ ret' = filter_units_by_time_periods(data, "unit_id", min_periods)
    /\ pc' = "returned"
    /\ UNCHANGED <<analysis, passed>>

CallFilterTest ==
    /\ pc = "idle"
    /\ \E data \in FilterTestTables \cup TablesWithoutId, min_periods \in {2, 3} :
          /\ call' = FilterCall(data, min_periods)
          /\ ret' = filter_units_by_time_periods(data, "unit_id", min_periods)
    /\ pc' = "returned"
    /\ UNCHANGED <<analysis, passed>>

Return ==
    /\ pc = "returned"
    /\ pc' = "idle"
    /\ call' = NoCall
    /\ ret' = NoRet
    /\ passed' = IF analysis = NoObject THEN NoTable ELSE passed
    /\ UNCHANGED analysis

NextTransform == CallTransform \/ CallTransformTest \/ Return

SpecTransform == Init /\ [][NextTransform]_vars

NextHausman == CallHausman \/ Return

SpecHausman == Init /\ [][NextHausman]_vars

NextEstimate == CallEstimate \/ CallEstimateControls \/ Return

SpecEstimate == Init /\ [][NextEstimate]_vars

NextVariation ==
    \/ CallVariation \/ CallVariationUnindexed \/ CallVariationTest
    \/ Return

SpecVariation == Init /\ [][NextVariation]_vars

NextValidate ==
    \/ CallValidate \/ CallValidateWithoutId
    \/ CallSummarize \/ CallSummarizeWithoutId
    \/ Return

SpecValidate == Init /\ [][NextValidate]_vars

\* the estimator called directly, and through a DoubleDemeanAnalysis object
NextAnalysis ==
    \/ (analysis = NoObject /\ CallEstimate)
    \/ Construct
    \/ RunAnalysis
    \/ Return

SpecAnalysis == Init /\ [][NextAnalysis]_vars

NextFilter == CallFilter \/ CallFilterTest \/ Return

SpecFilter == Init /\ [][NextFilter]_vars

Next ==
    \/ CallTransform \/ CallTransformTest
    \/ CallHausman
    \/ CallEstimate \/ CallEstimateControls
    \/ Construct
    \/ RunAnalysis
    \/ CallValidate \/ CallValidateWithoutId
    \/ CallSummarize \/ CallSummarizeWithoutId
    \/ CallVariation \/ CallVariationUnindexed \/ CallVariationTest
    \/ CallFilter \/ CallFilterTest
    \/ Return

Spec == Init /\ [][Next]_vars

(***************************************************************************)
(* Properties of create_double_demeaned_interaction.                       *)
(***************************************************************************)
Transformed ==
    /\ pc = "returned"
    /\ call.op = "create_double_demeaned_interaction"
    /\ ret.raised = "none"

SixColumns == <<"mean_x", "mean_z", "dm_x", "dm_z", "int_x_z", "dd_int_x_z">>

HasVariation(df, var, u) ==
    \E i, j \in UnitRows(df, u) : df.rows[i].v[var] # df.rows[j].v[var]

UnitSum(df, var, u) == SumOver(Column(df, var), UnitRows(df, u))

\* C1: after the transformer, dm_X and dm_Z sum to zero over the rows of
\* every unit, whatever the number of rows per unit.
C1_DemeanedSumsToZero ==
    Transformed =>
        \A u \in UnitsOf(ret.value) :
            /\ UnitSum(ret.value, "dm_x", u) = Zero
            /\ UnitSum(ret.value, "dm_z", u) = Zero

\* an unbalanced panel whose larger unit varies in X and in Z
C1_Witness ==
    /\ Transformed
    /\ \E u, w \in UnitsOf(ret.value) :
          /\ Cardinality(UnitRows(ret.value, u)) > Cardinality(UnitRows(ret.value, w))
          /\ HasVariation(ret.value, "x", u)
          /\ HasVariation(ret.value, "z", u)
          /\ UnitSum(ret.value, "x", u) # Zero

\* C2: the result has the rows and the original column values of the input
\* plus exactly the six columns mean_X, mean_Z, dm_X, dm_Z, int_X_Z,
\* dd_int_X_Z, with mean_V the unit's arithmetic mean of V, dm_V = V - mean_V,
\* int_X_Z = X*Z and dd_int_X_Z = dm_X*dm_Z; X=[1,3], Z=[2,4] in one unit
\* gives dd_int_X_Z = [1,1].
C2_SixColumnsAdded ==
    Transformed =>
        LET din == call.df
            out == ret.value
        IN  /\ out.cols = din.cols \o SixColumns
            /\ DOMAIN out.rows = DOMAIN din.rows
            /\ \A i \in DOMAIN out.rows :
                  LET r == out.rows[i]
                      n == Cardinality(UnitRows(din, r.unit))
                  IN  /\ r.unit = din.rows[i].unit
                      /\ r.time = din.rows[i].time
                      /\ DOMAIN r.v = {out.cols[k] : k \in DOMAIN out.cols}
                      /\ \A c \in DOMAIN din.rows[i].v : r.v[c] = din.rows[i].v[c]
                      /\ RMul(r.v["mean_x"], R(n)) = UnitSum(din, "x", r.unit)
                      /\ RMul(r.v["mean_z"], R(n)) = UnitSum(din, "z", r.unit)
                      /\ RAdd(r.v["dm_x"], r.v["mean_x"]) = r.v["x"]
                      /\ RAdd(r.v["dm_z"], r.v["mean_z"]) = r.v["z"]
                      /\ r.v["int_x_z"] = RMul(r.v["x"], r.v["z"])
                      /\ r.v["dd_int_x_z"] = RMul(r.v["dm_x"], r.v["dm_z"])
                      /\ (r.v["x"] \in {R(1), R(3)} /\ r.v["mean_x"] = R(2)
                          /\ r.v["z"] \in {R(2), R(4)} /\ r.v["mean_z"] = R(3)
                          /\ r.v["x"] = RSub(r.v["z"], R(1))
                            => r.v["dd_int_x_z"] = R(1))

\* the worked example: unit 1 with X = [1,3] and Z = [2,4]
C2_Witness ==
    /\ Transformed
    /\ Len(ret.value.rows) = 4
    /\ ret.value.rows[1].v["x"] = R(1) /\ ret.value.rows[1].v["z"] = R(2)
    /\ ret.value.rows[2].v["x"] = R(3) /\ ret.value.rows[2].v["z"] = R(4)
    /\ ret.value.rows[1].unit = ret.value.rows[2].unit
    /\ ret.value.rows[1].v["dd_int_x_z"] = R(1)
    /\ ret.value.rows[2].v["dd_int_x_z"] = R(1)

VariesInBoth(df, u) == HasVariation(df, "x", u) /\ HasVariation(df, "z", u)

\* C3 as stated: whenever some unit varies in both X and Z, the columns
\* int_X_Z and dd_int_X_Z differ in at least one row.
C3_Original ==
    Transformed =>
        ((\E u \in UnitsOf(call.df) : VariesInBoth(call.df, u))
            => Column(ret.value, "int_x_z") # Column(ret.value, "dd_int_x_z"))

\* C3 (amended): whenever some unit varies in both X and Z and has a nonzero
\* within-unit mean of X or of Z, the columns int_X_Z and dd_int_X_Z differ
\* in at least one row.
C3_DifferWhenMeanNonzero ==
    Transformed =>
        ((\E u \in UnitsOf(call.df) :
              /\ VariesInBoth(call.df, u)
              /\ (UnitSum(call.df, "x", u) # Zero \/ UnitSum(call.df, "z", u) # Zero))
            => Column(ret.value, "int_x_z") # Column(ret.value, "dd_int_x_z"))

C3_Witness ==
    /\ Transformed
    /\ \E u \in UnitsOf(call.df) :
          /\ VariesInBoth(call.df, u)
          /\ UnitSum(call.df, "x", u) # Zero
          /\ UnitSum(call.df, "z", u) = Zero
    /\ Column(ret.value, "int_x_z") # Column(ret.value, "dd_int_x_z")

(***************************************************************************)
(* Properties of perform_hausman_test.                                     *)
(***************************************************************************)
HausmanReturned == pc = "returned" /\ call.op = "perform_hausman_test"
HausmanResult == HausmanReturned /\ ret.raised = "none" /\ ret.value.type = "dict"

PairedName(v) == IF v = "int_x_z" THEN "dd_int_x_z" ELSE v

\* the standard model's coefficients that have a partner in the other model
CommonSet(std, dd) ==
    {v \in {std.params[i] : i \in DOMAIN std.params} : InSeq(PairedName(v), dd.params)}

VarOf(res, v) == res.cov[<<GetLoc(res.params, v), GetLoc(res.params, v)>>]
VarDiff(std, dd, v) == RSub(VarOf(dd, PairedName(v)), VarOf(std, v))

Computable(std, dd) == CommonSet(std, dd) # {} /\ std.finite /\ dd.finite

\* C5 as stated: perform_hausman_test never raises, and returns None only
\* when there is no common coefficient or the numerical computation raised;
\* otherwise, for any verbose, it returns a result record.
C5_Original ==
    HausmanReturned =>
        /\ ret.raised = "none"
        /\ (Computable(call.standard_results, call.dd_results)
              => /\ ret.value.type = "dict"
                 /\ DOMAIN ret.value =
                      {"type", "hausman_statistic", "degrees_of_freedom", "p_value",
                       "positive_definite", "conclusion", "coefficient_differences"})

\* C6: a returned result is classified 'systematic bias detected' exactly
\* when its p_value < 0.05, and 'no systematic bias' otherwise (p_value
\* exactly 0.05 included).
C6_ConclusionIffBelow5Percent ==
    HausmanResult =>
        /\ (ret.value.conclusion = "SYSTEMATIC BIAS DETECTED")
              <=> RLt(ret.value.p_value, <<5, 100>>)
        /\ (ret.value.conclusion = "NO SYSTEMATIC BIAS")
              <=> RLe(<<5, 100>>, ret.value.p_value)

\* a result whose p_value is exactly 0.05
C6_Witness ==
    /\ HausmanResult
    /\ ret.value.p_value = <<1, 20>>
    /\ ret.value.conclusion = "NO SYSTEMATIC BIAS"

\* a result on the other side of the threshold
C6_WitnessBias ==
    /\ HausmanResult
    /\ RLt(ret.value.p_value, <<1, 20>>)
    /\ ret.value.conclusion = "SYSTEMATIC BIAS DETECTED"

Identical(std, dd) ==
    /\ Len(std.params) = Len(dd.params)
    /\ \A i \in DOMAIN std.params : dd.params[i] = PairedName(std.params[i])
    /\ std.coef = dd.coef
    /\ std.cov = dd.cov
    /\ std.finite /\ dd.finite

\* C7 as stated: on two models with identical coefficient vectors and
\* covariance matrices the test returns a result with statistic exactly 0
\* and p_value 1.
C7_Original ==
    (HausmanReturned /\ Identical(call.standard_results, call.dd_results)) =>
        /\ ret.raised = "none"
        /\ ret.value.type = "dict"
        /\ ret.value.hausman_statistic = Zero
        /\ ret.value.p_value = R(1)

NotPositiveDefinite(std, dd) ==
    \E v \in CommonSet(std, dd) : RLe(VarDiff(std, dd, v), Zero)

\* C8 as stated: when V_diff is not positive definite the test does not
\* raise and the result it returns has positive_definite = False and a
\* finite, non-negative statistic.
C8_Original ==
    (HausmanResult /\ NotPositiveDefinite(call.standard_results, call.dd_results)) =>
        /\ ret.value.positive_definite = FALSE
        /\ ret.value.hausman_statistic[2] > 0
        /\ RLe(Zero, ret.value.hausman_statistic)

(***************************************************************************)
(* Properties of estimate_fe_models.                                       *)
(***************************************************************************)
EstimateReturned == pc = "returned" /\ call.op = "estimate_fe_models"
Estimated == EstimateReturned /\ ret.raised = "none"

\* C4 as stated: the comparison table has a row for every coefficient
\* common to both models, int_X_Z being matched to dd_int_X_Z; in particular
\* it has a row for the interaction term with the standard coefficient and
\* SE, the double-demeaned coefficient and SE, and Difference = standard
\* minus double-demeaned.
C4_Original ==
    Estimated =>
        LET std == ret.value.standard_results
            dd == ret.value.dd_results
        IN  \A v \in CommonSet(std, dd) :
                [Variable |-> v,
                 Std_FE_Coef |-> Param(std, v),
                 Std_FE_SE |-> StdErr(std, v),
                 DD_Coef |-> Param(dd, PairedName(v)),
                 DD_SE |-> StdErr(dd, PairedName(v)),
                 Difference |-> RSub(Param(std, v), Param(dd, PairedName(v)))]
                    \in ret.value.comparison_df

\* at least 5% of the units have two rows that differ in the control
ShowsVariation(df, var) ==
    20 * Cardinality({u \in UnitsOf(df) : HasVariation(df, var, u)})
        >= Cardinality(UnitsOf(df))

\* C9: a control of w_vars that is a column of the table is a regressor of
\* both specifications iff at least 5% of the units show within-unit
\* variation in it (meets_threshold at the default threshold); below the
\* threshold it is in neither.
C9_ControlsFilteredAt5Percent ==
    Estimated =>
        \A i \in DOMAIN call.w_vars :
            LET w == call.w_vars[i]
                inStd == InSeq(w, ret.value.standard_results.params)
                inDd == InSeq(w, ret.value.dd_results.params)
            IN  InSeq(w, call.df.cols) =>
                    /\ inStd <=> ShowsVariation(call.df, w)
                    /\ inDd <=> ShowsVariation(call.df, w)
                    /\ ShowsVariation(call.df, w) <=>
                          check_within_unit_variation(
                              call.df, w, DefaultThreshold).meets_threshold

\* a control that varies in exactly 1 unit of 20 (5%) is kept
C9_Witness ==
    /\ Estimated
    /\ Cardinality(UnitsOf(call.df)) = 20
    /\ InSeq("w1", call.w_vars)
    /\ Cardinality({u \in UnitsOf(call.df) : HasVariation(call.df, "w1", u)}) = 1
    /\ InSeq("w1", ret.value.standard_results.params)
    /\ InSeq("w1", ret.value.dd_results.params)

\* ... and one that varies in 1 unit of 21 is dropped
C9_WitnessDropped ==
    /\ Estimated
    /\ Cardinality(UnitsOf(call.df)) = 21
    /\ InSeq("w1", call.w_vars)
    /\ Cardinality({u \in UnitsOf(call.df) : HasVariation(call.df, "w1", u)}) = 1
    /\ ~InSeq("w1", ret.value.standard_results.params)

AnalysisReturned == pc = "returned" /\ call.op = "run_analysis"

\* a fit failed in the engine, or a required column was absent
FitFailed(df, engine) ==
    \/ engine.std.error # "none"
    \/ engine.dd.error # "none"
    \/ MissingColumn(df, <<"y", "x", "z", IntName("x", "z"), DdIntName("x", "z")>>)

\* C10 as stated: when a fit fails in the engine or a required column (Y, X,
\* Z or an interaction column) is absent, estimate_fe_models returns no
\* results and fails with the single error kind EstimationError, and the
\* failure reaches the caller of estimate_fe_models and of run_analysis.
C10_Original ==
    /\ (EstimateReturned /\ FitFailed(call.df, call.engine))
          => ret.raised = "EstimationError"
    /\ (AnalysisReturned /\ call.estimate.raised # "none")
          => ret.raised = "EstimationError"

\* both fits of the run_analysis call that returned succeeded
FitsSucceeded == AnalysisReturned /\ call.estimate.raised = "none"

\* what perform_hausman_test gives for the two fitted models of the call
HausmanOfCall ==
    perform_hausman_test(call.estimate.value.standard_results,
                         call.estimate.value.dd_results,
                         analysis.x_var, analysis.z_var, call.verbose).value

\* C11: when both fits succeed and the Hausman test is not run or returns
\* None, run_analysis completes without raising and returns the two model
\* results, the comparison table and the processed data, with hausman_test
\* set to None.
C11_CompletesWithoutHausman ==
    (FitsSucceeded /\ (~call.run_hausman \/ HausmanOfCall = NoneValue)) =>
        /\ ret.raised = "none"
        /\ DOMAIN ret.value = {"standard_results", "dd_results", "comparison_df",
                               "hausman_test", "processed_data"}
        /\ ret.value.hausman_test = NoneValue
        /\ ret.value.standard_results = call.estimate.value.standard_results
        /\ ret.value.dd_results = call.estimate.value.dd_results
        /\ ret.value.comparison_df = call.estimate.value.comparison_df
        /\ InSeq(DdIntName(analysis.x_var, analysis.z_var),
                 ret.value.processed_data.cols)

\* the Hausman test was run on two fitted models and returned None
C11_Witness ==
    /\ FitsSucceeded /\ call.run_hausman /\ HausmanOfCall = NoneValue
    /\ ret.raised = "none" /\ ret.value.hausman_test = NoneValue

\* the Hausman test was not run
C11_WitnessNotRun ==
    FitsSucceeded /\ ~call.run_hausman /\ ret.raised = "none"

ValidateReturned == pc = "returned" /\ call.op = "validate_panel_data"
SummaryReturned == pc = "returned" /\ call.op = "summarize_panel_structure"

\* an identifier column of the call's table is absent
IdColumnAbsent ==
    ~InSeq(call.unit_var, call.data.cols) \/ ~InSeq(call.time_var, call.data.cols)

\* both identifier columns are present and one holds a missing value
IdValueMissing ==
    /\ ~IdColumnAbsent
    /\ \E i \in DOMAIN call.data.rows :
          \/ call.data.rows[i].v[call.unit_var] = NaN
          \/ call.data.rows[i].v[call.time_var] = NaN

C12_WitnessAbsent == ValidateReturned /\ IdColumnAbsent /\ ret.raised = "ValueError"

\* the rows of unit u in the call's table
RowsOfUnit(u) ==
    {i \in DOMAIN call.data.rows : call.data.rows[i].v[call.unit_var] = u}

\* the set of time periods of unit u in the call's table
TimesOfUnit(u) == {call.data.rows[i].v[call.time_var] : i \in RowsOfUnit(u)}

UnitsOfCall == {call.data.rows[i].v[call.unit_var] : i \in DOMAIN call.data.rows}

\* C13: a table with both identifier columns present and complete is never
\* rejected, whether or not a unit has a single period or the panel is
\* unbalanced, and the table returned has the rows and values of the input.
C13_NeverFailsOnShape ==
    (ValidateReturned /\ ~IdColumnAbsent /\ ~IdValueMissing) =>
        /\ ret.raised = "none"
        /\ ret.value = call.data
        /\ ret.printed.warning <=> \E u \in UnitsOfCall : Cardinality(RowsOfUnit(u)) = 1

\* an unbalanced panel with a single-period unit was validated
C13_Witness ==
    /\ ValidateReturned /\ ret.raised = "none" /\ ret.value = call.data
    /\ \E u, w \in UnitsOfCall :
          /\ Cardinality(RowsOfUnit(u)) = 1
          /\ Cardinality(RowsOfUnit(w)) > 1

\* every unit of the call's table has the same set of time periods
IdenticalPeriods == \A u, w \in UnitsOfCall : TimesOfUnit(u) = TimesOfUnit(w)

\* C14 as stated: the panel is reported balanced (panel type 'Balanced' of
\* validate_panel_data, is_balanced of summarize_panel_structure) if and
\* only if every unit has an identical set of time periods.
C14_Original ==
    /\ (ValidateReturned /\ ret.raised = "none") =>
          (ret.printed.panel_type = "Balanced" <=> IdenticalPeriods)
    /\ (SummaryReturned /\ ret.raised = "none" /\ ~IdValueMissing) =>
          (ret.value.is_balanced <=> IdenticalPeriods)

VariationReturned == pc = "returned" /\ call.op = "check_within_unit_variation"
VariableFound == VariationReturned /\ InSeq(call.variable, call.data.cols)

\* the unit of row i of the call's table, and the rows of a unit
UnitOfRow(i) ==
    IF "unit" \in DOMAIN call.data.rows[i]
    THEN call.data.rows[i].unit
    ELSE call.data.rows[i].v[call.data.cols[1]]
UnitsChecked == {UnitOfRow(i) : i \in DOMAIN call.data.rows}
RowsChecked(u) == {i \in DOMAIN call.data.rows : UnitOfRow(i) = u}
Checked(i) == call.data.rows[i].v[call.variable]

\* the unit has more than one observation and two of them differ: for the
\* values of the model (multiples of 1) the standard deviation is then at
\* least 1/2, and 0 otherwise
Varies(u) ==
    /\ Cardinality(RowsChecked(u)) > 1
    /\ \E i, j \in RowsChecked(u) : Checked(i) # Checked(j)

ConstantWithinUnits ==
    \A u \in UnitsChecked : \A i, j \in RowsChecked(u) : Checked(i) = Checked(j)

IncreasingWithinUnits ==
    \A u \in UnitsChecked :
        /\ Cardinality(RowsChecked(u)) >= 2
        /\ \A i, j \in RowsChecked(u) : i < j => RLt(Checked(i), Checked(j))

C15_WitnessIncreasing ==
    /\ VariableFound /\ IncreasingWithinUnits
    /\ ret.value.units_with_variation = 2 /\ ret.value.total_units = 2

\* C16: for a variable that is not a column the checker does not raise; it
\* returns a result with an 'error' entry saying the variable was not found
\* and no variation statistics, which no success result has.
C16_AbsentVariableIsReported ==
    VariationReturned =>
        /\ ret.raised = "none"
        /\ ~InSeq(call.variable, call.data.cols) =>
              /\ DOMAIN ret.value = {"error"}
              /\ ret.value.error = NotFoundMessage(call.variable)
        /\ InSeq(call.variable, call.data.cols) => "error" \notin DOMAIN ret.value

\* the checker was asked for a variable the table does not have
C16_Witness ==
    /\ VariationReturned /\ call.variable = "missing_variable"
    /\ "error" \in DOMAIN ret.value

\* an identifier column of the constructor is absent from the table, or has
\* a missing value
IdColumnAbsentIn(data) ==
    \/ ~InSeq("unit_id", data.cols) \/ ~InSeq("time_id", data.cols)
    \/ \E i \in DOMAIN data.rows :
          data.rows[i].v["unit_id"] = NaN \/ data.rows[i].v["time_id"] = NaN

\* the six columns the transformer adds for the call's x_var and z_var
AddedColumns ==
    {MeanName(call.x_var), MeanName(call.z_var), DmName(call.x_var),
     DmName(call.z_var), IntName(call.x_var, call.z_var),
     DdIntName(call.x_var, call.z_var)}

Constructed == pc = "returned" /\ call.op = "DoubleDemeanAnalysis"

\* C18 as stated: the table the caller passed to DoubleDemeanAnalysis has,
\* after construction and after any run_analysis calls, the columns, column
\* types and values it had before, categorical and object columns included.
C18_Original == passed # NoTable => passed.now = passed.before

\* C19 as stated: in the panel an analysis object holds, each (unit, time)
\* pair appears at most once.
C19_Original ==
    analysis # NoObject =>
        \A i, j \in DOMAIN analysis.data.rows :
            (/\ analysis.data.rows[i].unit = analysis.data.rows[j].unit
             /\ analysis.data.rows[i].time = analysis.data.rows[j].time) => i = j

\* C20 as stated: constructing with an x_var or z_var that is not a column
\* (the unit and time columns being valid) fails with KeyError and produces
\* no analysis object.
C20_Original ==
    (/\ Constructed
     /\ ~IdColumnAbsentIn(call.data)
     /\ (~InSeq("x", call.data.cols) \/ ~InSeq("z", call.data.cols))) =>
        ret.raised = "KeyError" /\ analysis = NoObject

Filtered ==
    /\ pc = "returned" /\ call.op = "filter_units_by_time_periods"
    /\ ret.raised = "none"

\* the number of rows of the call's table with the unit of its row i
RowsWithUnitOf(i) ==
    Cardinality({j \in DOMAIN call.data.rows :
                    call.data.rows[j].v[call.unit_var]
                        = call.data.rows[i].v[call.unit_var]})

\* the rows of the call's table that have a unit (a missing identifier
\* names no unit)
RowsWithUnit ==
    {i \in DOMAIN call.data.rows : call.data.rows[i].v[call.unit_var] # NaN}

\* the rows of the units with at least min_periods rows
RowsToKeep == {i \in RowsWithUnit : RowsWithUnitOf(i) >= call.min_periods}

\* the rows of a table, as a set (each row of the model differs in value)
RowSet(data) == {data.rows[i] : i \in DOMAIN data.rows}

\* the rows of the result follow the order of the input (value is increasing
\* in the tables called with)
KeepsOrder ==
    \A i, j \in DOMAIN ret.value.rows :
        i < j => RLt(ret.value.rows[i].v["value"], ret.value.rows[j].v["value"])

\* C21 as stated: the filter returns exactly the rows whose unit has at
\* least min_periods rows; when every unit has that many rows the result has
\* all rows of the input; filtering the result again changes nothing.
C21_Original ==
    Filtered =>
        /\ RowSet(ret.value) = {call.data.rows[i] : i \in RowsToKeep}
        /\ (\A i \in RowsWithUnit : RowsWithUnitOf(i) >= call.min_periods)
              => ret.value.rows = call.data.rows
        /\ filter_units_by_time_periods(ret.value, call.unit_var, call.min_periods) = ret

\* C21 amended: the rows of the units with at least min_periods rows are
\* kept, in the input's order and with the input's columns, and every other
\* row is dropped, a row whose unit identifier is missing included; when no
\* unit identifier is missing and every unit has that many rows the result
\* has all rows of the input; filtering the result again changes nothing.
C21_KeepsUnitsWithEnoughRows ==
    Filtered =>
        /\ RowSet(ret.value) = {call.data.rows[i] : i \in RowsToKeep}
        /\ Len(ret.value.rows) = Cardinality(RowsToKeep)
        /\ KeepsOrder
        /\ ret.value.cols = call.data.cols
        /\ RowsToKeep = DOMAIN call.data.rows => ret.value.rows = call.data.rows
        /\ filter_units_by_time_periods(ret.value, call.unit_var,
                                        call.min_periods) = ret

\* one unit had exactly min_periods rows and was kept, another had fewer and
\* was dropped
C21_Witness ==
    /\ Filtered
    /\ \E i, j \in DOMAIN call.data.rows :
          /\ i \in RowsWithUnit /\ j \in RowsWithUnit
          /\ RowsWithUnitOf(i) = call.min_periods
          /\ RowsWithUnitOf(j) < call.min_periods
          /\ call.data.rows[i] \in RowSet(ret.value)
          /\ call.data.rows[j] \notin RowSet(ret.value)

\* the positions of a stage in the stages of the call
At(stage) == {i \in DOMAIN call.stages : call.stages[i] = stage}

\* every run of stage a comes before every run of stage b
Precedes(a, b) == \A i \in At(a), j \in At(b) : i < j

RunReturned == pc = "returned" /\ call.op = "run_analysis"

\* centering, when enabled, comes before the transformation, and the
\* Hausman test runs only after both fits have returned
CenteringAndHausmanInOrder ==
    /\ (At("_apply_grand_mean_centering") # {}) = call.center_variables
    /\ Precedes("_apply_grand_mean_centering", "create_double_demeaned_interaction")
    /\ At("perform_hausman_test") # {} =>
          /\ At("standard_model.fit") # {} /\ At("dd_model.fit") # {}
          /\ call.estimate.raised = "none"
    /\ Precedes("standard_model.fit", "dd_model.fit")
    /\ Precedes("standard_model.fit", "perform_hausman_test")
    /\ Precedes("dd_model.fit", "perform_hausman_test")

\* C23 as stated: the stages run in the order Validator, Variation Checker,
\* Transformer, Estimator, Hausman Tester: the variation check comes before
\* the transformation, centering before the transformation, the Hausman test
\* after both fits.
C23_Original ==
    /\ Constructed => call.stages[1] = "validate_panel_data"
    /\ RunReturned =>
          /\ analysis # NoObject
          /\ Precedes("check_within_unit_variation",
                      "create_double_demeaned_interaction")
          /\ Precedes("create_double_demeaned_interaction", "standard_model.fit")
          /\ CenteringAndHausmanInOrder

\* C23 amended: the order is Validator, centering (when enabled),
\* Transformer, Variation Checker, the two fits, Hausman Tester: the
\* variation check is made by the estimator on the transformed panel, after
\* the transformation and before the first fit.
C23_VariationCheckedByEstimator ==
    /\ Constructed => call.stages[1] = "validate_panel_data"
    /\ RunReturned =>
          /\ analysis # NoObject
          /\ At("create_double_demeaned_interaction") = {Cardinality(At("_apply_grand_mean_centering")) + 1}
          /\ Precedes("create_double_demeaned_interaction",
                      "check_within_unit_variation")
          /\ Precedes("check_within_unit_variation", "standard_model.fit")
          /\ At("standard_model.fit") # {} => At("check_within_unit_variation") # {}
          /\ CenteringAndHausmanInOrder

\* a run with centering and the Hausman test went through all stages
C23_Witness ==
    /\ RunReturned /\ ret.raised = "none"
    /\ call.center_variables /\ call.run_hausman
    /\ Len(analysis.w_vars) = 1
    /\ call.stages = <<"_apply_grand_mean_centering",
                       "create_double_demeaned_interaction",
                       "check_within_unit_variation", "check_within_unit_variation",
                       "check_within_unit_variation", "check_within_unit_variation",
                       "standard_model.fit", "dd_model.fit",
                       "_create_comparison_table", "perform_hausman_test">>

NamesOf(res) == {res.params[i] : i \in DOMAIN res.params}

\* the common coefficients as the claim words them: the standard model's
\* names that occur in the other model, and int_x_z when the other model has
\* dd_int_x_z
CommonByName(std, dd) ==
    {v \in NamesOf(std) : v \in NamesOf(dd)}
        \cup {v \in NamesOf(std) : v = "int_x_z" /\ "dd_int_x_z" \in NamesOf(dd)}

\* the position among the coefficients in 'common' of the standard model's
\* i-th coefficient
RankIn(std, common, i) == Cardinality({j \in 1..i : std.params[j] \in common})

\* the result's differences, degrees of freedom and positive-definiteness
\* flag are those of the coefficients in 'common': b - B for each, in the
\* standard model's order, and V_diff = V_dd - V_std on the paired positions
TestsCoefficients(common) ==
    LET std == call.standard_results
        dd == call.dd_results
    IN  /\ ret.value.degrees_of_freedom = Cardinality(common)
        /\ DOMAIN ret.value.coefficient_differences = 1..Cardinality(common)
        /\ \A i \in DOMAIN std.params :
              std.params[i] \in common =>
                  ret.value.coefficient_differences[RankIn(std, common, i)]
                      = RSub(Param(dd, PairedName(std.params[i])), std.coef[i])
        /\ ret.value.positive_definite
              = \A v \in common : GtTimes1em10(VarDiff(std, dd, v), R(1))

\* C24 as stated: the common coefficients are the standard model's names that
\* also occur in the double-demeaned model, plus int_x_z when that model has
\* dd_int_x_z; the differences are b - B over them, V_diff is V_dd - V_std on
\* the paired positions and the degrees of freedom are their number.
C24_Original ==
    HausmanResult =>
        ret.value.degrees_of_freedom
            = Cardinality(CommonByName(call.standard_results, call.dd_results))

\* C24 amended: the common coefficients are the standard model's names other
\* than int_x_z that also occur in the double-demeaned model, plus int_x_z
\* when that model has dd_int_x_z (a coefficient named int_x_z in the
\* double-demeaned model is not used); the rest as stated.
C24_PairsInteractionOnly ==
    HausmanResult =>
        TestsCoefficients(CommonSet(call.standard_results, call.dd_results))

\* int_x_z was paired with dd_int_x_z, a second coefficient was common, and
\* the two differences are not zero and not equal
C24_Witness ==
    /\ HausmanResult
    /\ CommonSet(call.standard_results, call.dd_results) = {"int_x_z", "x"}
    /\ call.standard_results.params[1] = "int_x_z"
    /\ ret.value.coefficient_differences[1] # Zero
    /\ ret.value.coefficient_differences[2] # Zero
    /\ ret.value.coefficient_differences[1] # ret.value.coefficient_differences[2]
    /\ RLt(Zero, ret.value.coefficient_differences[1])

\* both models have a coefficient named int_x_z and it is not tested
C24_WitnessSameName ==
    /\ HausmanResult
    /\ "int_x_z" \in NamesOf(call.standard_results)
    /\ "int_x_z" \in NamesOf(call.dd_results)
    /\ ret.value.degrees_of_freedom = 1

\* the sum of term[v] over the names v of S
RECURSIVE SumTerms(_, _)
SumTerms(S, term) ==
    IF S = {} THEN Zero
    ELSE LET v == CHOOSE w \in S : TRUE
         IN  RAdd(term[v], SumTerms(S \ {v}, term))

\* the three statistics of the call, from the coefficients and variances of
\* the two models handed to the test: d(v) = b - B and e(v) = V_b - V_B for
\* each common coefficient v (the eigenvalues of a diagonal V_diff)
StatisticsOfCall ==
    LET std == call.standard_results
        dd == call.dd_results
        common == CommonSet(std, dd)
        d == [v \in common |-> RSub(Param(dd, PairedName(v)), Param(std, v))]
        e == [v \in common |-> VarDiff(std, dd, v)]
        largest == CHOOSE m \in {RAbs(e[v]) : v \in common} :
                       \A v \in common : RLe(RAbs(e[v]), m)
        positive == {v \in common : GtTimesEps(e[v], largest, Cardinality(common))}
        nonzero == {v \in common : GtTimes1em10(RAbs(e[v]), largest)}
    IN  [eigen |-> IF positive = {} THEN Inf
                   ELSE SumTerms(positive,
                                 [v \in common |-> RDiv(RMul(d[v], d[v]), e[v])]),
         svd |-> SumTerms(nonzero,
                          [v \in common |-> RDiv(RMul(d[v], d[v]), RAbs(e[v]))]),
         pinv |-> SumTerms(nonzero,
                           [v \in common |-> RDiv(RMul(d[v], d[v]), e[v])])]

\* the eigen-decomposition statistic when it is finite, else the SVD one
ChosenStatistic ==
    IF StatisticsOfCall.eigen # Inf /\ StatisticsOfCall.eigen # NaN
    THEN StatisticsOfCall.eigen ELSE StatisticsOfCall.svd

NeedsFallback == RLt(ChosenStatistic, Zero) \/ RLt(R(100), ChosenStatistic)

\* C25: when V_diff is not positive definite the statistic returned is the
\* eigen-decomposition statistic if that is finite and not NaN, else the SVD
\* pseudo-inverse statistic, replaced by the statistic of the pseudo-inverse
\* with relative tolerance 1e-10 exactly when that choice is negative or
\* greater than 100.
C25_StatisticIsTheSelection ==
    (HausmanResult /\ ~ret.value.positive_definite) =>
        ret.value.hausman_statistic
            = IF NeedsFallback THEN StatisticsOfCall.pinv ELSE ChosenStatistic

\* the eigen-decomposition statistic was above 100 and the pseudo-inverse
\* statistic, a different value, was returned in its place
C25_Witness ==
    /\ HausmanResult /\ ~ret.value.positive_definite
    /\ StatisticsOfCall.eigen # Inf
    /\ NeedsFallback
    /\ ret.value.hausman_statistic = StatisticsOfCall.pinv
    /\ StatisticsOfCall.pinv # ChosenStatistic

\* no eigenvalue was positive and the SVD statistic was returned
C25_WitnessSvd ==
    /\ HausmanResult /\ ~ret.value.positive_definite
    /\ StatisticsOfCall.eigen = Inf
    /\ ~NeedsFallback
    /\ RLt(Zero, StatisticsOfCall.svd)
    /\ ret.value.hausman_statistic = StatisticsOfCall.svd

\* the eigen-decomposition statistic, differing from the SVD one, was returned
C25_WitnessEigen ==
    /\ HausmanResult /\ ~ret.value.positive_definite
    /\ StatisticsOfCall.eigen # Inf
    /\ StatisticsOfCall.eigen # StatisticsOfCall.svd
    /\ ~NeedsFallback
    /\ ret.value.hausman_statistic = StatisticsOfCall.eigen

\* the outcome of the call's run with the other value of verbose
OutcomeWithOtherVerbose ==
    run_analysis(analysis, call.center_variables, call.run_hausman, ~call.verbose,
                 call.engine.std, call.engine.dd).outcome

\* C26 as stated: verbose only controls what is printed: run_analysis and
\* perform_hausman_test give the same results with verbose True and False.
C26_Original ==
    /\ FitsSucceeded =>
          perform_hausman_test(call.estimate.value.standard_results,
                               call.estimate.value.dd_results,
                               analysis.x_var, analysis.z_var, TRUE)
              = perform_hausman_test(call.estimate.value.standard_results,
                                     call.estimate.value.dd_results,
                                     analysis.x_var, analysis.z_var, FALSE)
    /\ RunReturned => ret = OutcomeWithOtherVerbose

\* apart from the Hausman entry the results do not depend on verbose
C26_SameButHausman ==
    (RunReturned /\ ret.raised = "none") =>
        /\ OutcomeWithOtherVerbose.raised = "none"
        /\ [ret.value EXCEPT !.hausman_test = NoneValue]
              = [OutcomeWithOtherVerbose.value EXCEPT !.hausman_test = NoneValue]

\* the variables with a row in the comparison table of the call
TableVariables == {row.Variable : row \in ret.value.comparison_df}

\* the common coefficients perform_hausman_test tests on the call's models
TestedVariables ==
    NameSet(CommonVars(ret.value.standard_results, ret.value.dd_results,
                       IntName(call.x_var, call.z_var),
                       DdIntName(call.x_var, call.z_var),
                       Len(ret.value.standard_results.params)))

\* C27 as stated: the variables with a row in the comparison table are the
\* common coefficients the Hausman test tests, int_X_Z and dd_int_X_Z being
\* the same coefficient in both.
C27_Original == Estimated => TableVariables = TestedVariables

\* the two sets differ in the interaction term only
C27_SameButInteraction ==
    Estimated =>
        TableVariables = TestedVariables \ {IntName(call.x_var, call.z_var)}

\* the panel the analysis object held right after its construction from the
\* table the caller passed
DataAtConstruction ==
    NewAnalysis(passed.before, analysis.unit_var, analysis.time_var,
                analysis.y_var, analysis.x_var, analysis.z_var,
                analysis.w_vars).value.data

\* the transformed panel of a run on the panel held at construction
ProcessedFromConstruction(center_variables) ==
    create_double_demeaned_interaction(
        IF center_variables
        THEN apply_grand_mean_centering(analysis, DataAtConstruction)
        ELSE DataAtConstruction,
        analysis.x_var, analysis.z_var).value

\* C28: after any sequence of run_analysis calls analysis.data is the panel
\* of right after construction, and the processed_data of a call depends on
\* its arguments only: it is what the first such call gave.
C28_RunLeavesData ==
    analysis # NoObject =>
        /\ analysis.data = DataAtConstruction
        /\ (RunReturned /\ ret.raised = "none") =>
              ret.value.processed_data = ProcessedFromConstruction(call.center_variables)

\* an uncentered run after a centered one, on a panel that centering changes
C28_Witness ==
    /\ RunReturned /\ ret.raised = "none"
    /\ ~call.center_variables
    /\ call.results_before # <<>>
    /\ call.results_before.processed_data = ProcessedFromConstruction(TRUE)
    /\ ProcessedFromConstruction(TRUE) # ProcessedFromConstruction(FALSE)

ResultEntries ==
    {"standard_results", "dd_results", "comparison_df", "hausman_test",
     "processed_data"}

\* C29: analysis.results is empty after construction, is what it was before
\* a run_analysis call that failed, and after a successful call holds the
\* five entries of that call.
C29_ResultsReplacedOnSuccessOnly ==
    /\ (Constructed /\ ret.raised = "none") => analysis.results = <<>>
    /\ (RunReturned /\ ret.raised # "none") => analysis.results = call.results_before
    /\ (RunReturned /\ ret.raised = "none") =>
          /\ DOMAIN analysis.results = ResultEntries
          /\ analysis.results = ret.value
          /\ analysis.results.standard_results = call.estimate.value.standard_results
          /\ analysis.results.dd_results = call.estimate.value.dd_results
          /\ analysis.results.comparison_df = call.estimate.value.comparison_df
          /\ analysis.results.hausman_test
                = IF call.run_hausman THEN HausmanOfCall ELSE NoneValue
          /\ analysis.results.processed_data
                = ProcessedFromConstruction(call.center_variables)

\* a run failed in the estimation after an earlier run had succeeded, and
\* the earlier results are still held
C29_Witness ==
    /\ RunReturned /\ ret.raised # "none"
    /\ call.results_before # <<>>
    /\ call.estimate.raised \in EngineErrors
    /\ analysis.results = call.results_before

\* a successful run replaced the different results of an earlier run
C29_WitnessReplaced ==
    /\ RunReturned /\ ret.raised = "none"
    /\ call.results_before # <<>>
    /\ analysis.results # call.results_before

\* the variables run_analysis centers that are columns of the panel
CenteredVariables ==
    {v \in NameSet(<<analysis.y_var, analysis.x_var, analysis.z_var>> \o analysis.w_vars) :
        InSeq(v, analysis.data.cols)}

\* the columns whose values centering may change
ShiftedColumns ==
    CenteredVariables
        \cup {MeanName(analysis.x_var), MeanName(analysis.z_var),
              IntName(analysis.x_var, analysis.z_var)}

WithinUnitColumns ==
    {DmName(analysis.x_var), DmName(analysis.z_var),
     DdIntName(analysis.x_var, analysis.z_var)}

CenteredRun == RunReturned /\ ret.raised = "none" /\ call.center_variables

\* C30: the transformed panel of a centered run has the dm_X, dm_Z and
\* dd_int_X_Z of the uncentered transformation (only the centered variables,
\* mean_X, mean_Z and int_X_Z differ); every centered variable has overall
\* mean zero; centering the centered panel again changes no value.
C30_CenteringKeepsWithinUnitColumns ==
    CenteredRun =>
        LET with == ret.value.processed_data
            without == ProcessedFromConstruction(FALSE)
            centered == apply_grand_mean_centering(analysis, analysis.data)
        IN  /\ with.cols = without.cols
            /\ WithinUnitColumns \subseteq NameSet(with.cols)
            /\ \A c \in NameSet(with.cols) \ ShiftedColumns :
                  Column(with, c) = Column(without, c)
            /\ \A v \in CenteredVariables :
                  /\ Mean(Column(centered, v), DOMAIN centered.rows) = Zero
                  /\ Mean(Column(with, v), DOMAIN with.rows) = Zero
            /\ apply_grand_mean_centering(analysis, centered) = centered

\* centering shifted X and Z, changed int_X_Z, and the within-unit columns
\* are not all zero
C30_Witness ==
    /\ CenteredRun
    /\ LET with == ret.value.processed_data
           without == ProcessedFromConstruction(FALSE)
       IN  /\ Column(with, analysis.x_var) # Column(without, analysis.x_var)
           /\ Column(with, analysis.z_var) # Column(without, analysis.z_var)
           /\ Column(with, IntName(analysis.x_var, analysis.z_var))
                 # Column(without, IntName(analysis.x_var, analysis.z_var))
           /\ \E i \in DOMAIN with.rows :
                 Column(with, DdIntName(analysis.x_var, analysis.z_var))[i] # Zero

====
